---------------------------- MODULE Spec2Model ----------------------------
(***************************************************************************)
(* A model of the DSGNRG creative loop agent (src/creative_loop_agent.py) *)
(* and of the parts of its Flask adapter (src/loop_server.py) that the    *)
(* verified properties mention.                                            *)
(*                                                                         *)
(* Every JSON file of loop_data/ is a variable holding the decoded         *)
(* document.  A Python dict is a function (the empty dict is <<>>), a      *)
(* list is a sequence, None is the record None.  Strings that the code     *)
(* parses are modelled by their parts: an ISO date string 'YYYY-MM-DD' is  *)
(* the tuple <<y, m, d>>, an ISO datetime string is <<y, m, d, t>>, the    *)
(* empty string is <<>>.  The wall clock is the variable now, counted in   *)
(* ticks since the midnight that starts Epoch.                             *)
(***************************************************************************)
EXTENDS Integers, Sequences, FiniteSets, TLC

VARIABLES
    now,        \* the wall clock, in ticks since Epoch 00:00
    inputs,     \* loop_data/inputs.json
    outputs,    \* loop_data/outputs.json
    calendar,   \* loop_data/calendar.json
    tasks,      \* loop_data/<task_type>_tasks.json, one entry per task type
    ret,        \* what the last operation was given and what it returned
    logged,     \* history: the <<kind, date key>> pairs of every input log call
    nlogs,      \* history: per output kind, the number of log calls made
    processes,  \* loop_data/processes.json
    payments,   \* loop_data/payments.json
    fs,         \* per data file: "ok", "missing" or "undecodable"
    issued,     \* history: the <<task type, id>> pairs add_task has assigned
    inflight    \* per client: the operation it is in the middle of

vars == <<now, inputs, outputs, calendar, tasks, logged, nlogs,
          processes, payments, fs, issued, inflight, ret>>

---------------------------------------------------------------------------
(* Bounds of the model *)

\* The clock stops after the day Epoch + MaxDay.
MaxDay == 2
\* Ticks of the clock per calendar day.
TicksPerDay == 2
\* log_sonic_sketch is not called once the calendar holds this many records.
MaxCal == 3
\* No output is logged once outputs holds this many documents.
MaxOutputs == 5
\* log_creative_process is not called once processes holds this many.
MaxProcs == 2
\* add_payment is not called on a list that holds this many payments more
\* than the default list does.
MaxPayments == 1
\* Under SpecStore no record is added once the store holds this many.
MaxStore == 3
\* Under SpecKept and SpecIndex: the most logs of an output kind that is
\* held down, and the most tasks there are at a time.
MaxKept == 1
\* add_task is not called on a list that holds this many tasks.
MaxTasks == 2

---------------------------------------------------------------------------
(* Python values *)

None == [none |-> TRUE]

\* bool(v) for the values the store holds: None and the empty dict are falsy.
Truthy(v) == v # None /\ DOMAIN v # {}

\* Mutant of PyAll: any([...]) in place of all([...]).
PyAll_any(vs) == \E i \in DOMAIN vs : Truthy(vs[i])

\* all([...]) over a sequence of values
PyAll(vs) == \A i \in DOMAIN vs : Truthy(vs[i])

\* An optional value that is given: None stands for one that is not.
Some(v) == [some |-> v]

EmptyDict == <<>>

\* d.get(k, default)
Get(d, k, default) == IF k \in DOMAIN d THEN d[k] ELSE default

\* d[k] = v
Put(d, k, v) == [x \in DOMAIN d \cup {k} |-> IF x = k THEN v ELSE d[x]]

\* What a call hands back: the value it returned or the exception it raised.
\* (The log_* operations of the daily inputs return the timestamp of the
\* sub-record they stored, recorded here as "timestamp".)
Returned(value) == [raised |-> FALSE, value |-> value]
Raised(error) == [raised |-> TRUE, error |-> error]

\* max(a, b)
Max(a, b) == IF a >= b THEN a ELSE b

---------------------------------------------------------------------------
(* datetime: the proleptic Gregorian calendar of Python's datetime module *)

\* The date of tick 0: Saturday 2024-08-31, so that the first days of the
\* model cross a month start (Sunday 2024-09-01) and a week start (Monday
\* 2024-09-02).
Epoch == <<2024, 8, 31>>

IsLeap(y) == (y % 4 = 0 /\ y % 100 # 0) \/ y % 400 = 0

DaysInMonth(y, m) ==
    IF m = 2 THEN (IF IsLeap(y) THEN 29 ELSE 28)
    ELSE IF m \in {4, 6, 9, 11} THEN 30 ELSE 31

\* date + timedelta(days=1)
NextDate(d) ==
    IF d[3] < DaysInMonth(d[1], d[2]) THEN <<d[1], d[2], d[3] + 1>>
    ELSE IF d[2] < 12 THEN <<d[1], d[2] + 1, 1>>
    ELSE <<d[1] + 1, 1, 1>>

\* date - timedelta(days=1)
PrevDate(d) ==
    IF d[3] > 1 THEN <<d[1], d[2], d[3] - 1>>
    ELSE IF d[2] > 1 THEN <<d[1], d[2] - 1, DaysInMonth(d[1], d[2] - 1)>>
    ELSE <<d[1] - 1, 12, 31>>

RECURSIVE AddDays(_, _)
\* date + timedelta(days=n), n >= 0
AddDays(d, n) == IF n = 0 THEN d ELSE AddDays(NextDate(d), n - 1)

RECURSIVE SubDays(_, _)
\* date - timedelta(days=n), n >= 0
SubDays(d, n) == IF n = 0 THEN d ELSE SubDays(PrevDate(d), n - 1)

\* date.weekday(): Monday is 0, Sunday is 6
Weekday(d) ==
    LET t == <<0, 3, 2, 5, 0, 3, 5, 1, 4, 6, 2, 4>>
        y == IF d[2] < 3 THEN d[1] - 1 ELSE d[1]
        sunday0 == (y + (y \div 4) - (y \div 100) + (y \div 400) + t[d[2]] + d[3]) % 7
    IN (sunday0 + 6) % 7

\* a <= b for dates
DateLeq(a, b) ==
    \/ a[1] < b[1]
    \/ a[1] = b[1] /\ a[2] < b[2]
    \/ a[1] = b[1] /\ a[2] = b[2] /\ a[3] <= b[3]

\* datetime.date.today()
Today == AddDays(Epoch, now \div TicksPerDay)

\* date.isoformat(): 'YYYY-MM-DD'
IsoDate(d) == <<d[1], d[2], d[3]>>

\* datetime.datetime.now().isoformat(): 'YYYY-MM-DDTHH:MM:SS.ffffff'
NowIso == Today \o <<now % TicksPerDay>>

\* Whether datetime.fromisoformat(s) accepts the string s.
IsIsoString(s) ==
    /\ Len(s) \in {3, 4}
    /\ s[1] >= 1
    /\ s[2] \in 1..12
    /\ s[3] \in 1..DaysInMonth(s[1], s[2])

\* datetime.fromisoformat(s).date(), for a string it accepts
ParseDate(s) == <<s[1], s[2], s[3]>>

---------------------------------------------------------------------------
(* The data files.  The variable of a file is what it holds when it can be *)
(* decoded; fs tells whether the file is there and can be.                 *)

\* The files that hold one JSON object each.
FileNames == {"inputs", "processes", "outputs", "calendar", "payments"}

\* What the file name holds, when it can be decoded.
FileContent(name) ==
    CASE name = "inputs" -> inputs
      [] name = "processes" -> processes
      [] name = "outputs" -> outputs
      [] name = "calendar" -> calendar
      [] name = "payments" -> payments

\* self._load_data(file): {} when the file is missing or json.load fails.
load_data(name) ==
    IF fs[name] = "ok" THEN FileContent(name) ELSE EmptyDict

\* fs after self._save_data has written each of the files names.
Saved(names) == [n \in FileNames |-> IF n \in names THEN "ok" ELSE fs[n]]

---------------------------------------------------------------------------
(* The dataclasses, as asdict() stores them *)

\* asdict(SonicSketch(duration_minutes, description, audio_file, tags or []))
SonicSketch(duration_minutes, description) ==
    [duration_minutes |-> duration_minutes, description |-> description,
     audio_file |-> None, tags |-> <<>>, timestamp |-> NowIso]

\* asdict(VisualMoodboard(images, theme, color_palette or []))
VisualMoodboard(images, theme) ==
    [images |-> images, theme |-> theme, color_palette |-> <<>>,
     timestamp |-> NowIso]

\* asdict(LoreFragment(character, fragment, narrative_arc, elements or []))
LoreFragment(character, fragment, narrative_arc) ==
    [character |-> character, fragment |-> fragment,
     narrative_arc |-> narrative_arc, world_building_elements |-> <<>>,
     timestamp |-> NowIso]

\* asdict(CreativeInput(date))
CreativeInput(date) ==
    [date |-> date, sonic_sketch |-> None, visual_moodboard |-> None,
     lore_fragment |-> None]

\* asdict(CreativeProcess(sample_source, remix_approach, render_format,
\* emotion_tag, tempo, lore_arc_connection))
CreativeProcess(sample_source, remix_approach, render_format, emotion_tag, tempo, lore_arc_connection) ==
    [sample_source |-> sample_source, remix_approach |-> remix_approach,
     render_format |-> render_format, emotion_tag |-> emotion_tag,
     tempo |-> tempo, lore_arc_connection |-> lore_arc_connection,
     timestamp |-> NowIso]

\* asdict(CreativeOutput(title, kind, category, file_path, description,
\* tags=tags or [])) with output_type replaced by the enum's value
CreativeOutput(title, kind, category, description) ==
    [title |-> title, output_type |-> kind, category |-> category,
     file_path |-> None, description |-> description,
     release_date |-> NowIso, tags |-> <<>>]

---------------------------------------------------------------------------
(* The calendar *)

\* The <<month_key, day_key, activity_type>> triples the calendar holds.
CalendarCells(cal) ==
    UNION { UNION { { <<m, d, a>> : a \in DOMAIN cal[m][d] }
                    : d \in DOMAIN cal[m] }
            : m \in DOMAIN cal }

RECURSIVE CalendarCount(_, _)
CalendarCount(cal, cells) ==
    IF cells = {} THEN 0
    ELSE LET c == CHOOSE x \in cells : TRUE
         IN Len(cal[c[1]][c[2]][c[3]]) + CalendarCount(cal, cells \ {c})

\* The number of activity records in the calendar.
CalendarSize(cal) == CalendarCount(cal, CalendarCells(cal))

\* f"{date_obj.year}-{date_obj.month:02d}"
MonthKey(d) == <<d[1], d[2]>>

\* f"{date_obj.day:02d}"
DayKey(d) == <<d[3]>>

\* Mutant of update_calendar_entry: the list of the activity type is set
\* to the new record alone.
update_calendar_entry_reset(cal, date, activity_type, activity_data) ==
    IF ~IsIsoString(date) THEN [raised |-> TRUE, calendar |-> cal]
    ELSE
      LET date_obj == ParseDate(date)
          month == Get(cal, MonthKey(date_obj), EmptyDict)
          day == Get(month, DayKey(date_obj), EmptyDict)
          day2 == Put(day, activity_type, <<activity_data>>)
      IN [raised |-> FALSE,
          calendar |-> Put(cal, MonthKey(date_obj),
                           Put(month, DayKey(date_obj), day2))]

\* update_calendar_entry(date, activity_type, activity_data) on the
\* calendar cal: the calendar it saves, or raised when fromisoformat
\* rejects the date string (nothing is saved then).
update_calendar_entry(cal, date, activity_type, activity_data) ==
    IF ~IsIsoString(date) THEN [raised |-> TRUE, calendar |-> cal]
    ELSE
      LET date_obj == ParseDate(date)
          month_key == MonthKey(date_obj)
          day_key == DayKey(date_obj)
          month == Get(cal, month_key, EmptyDict)
          day == Get(month, day_key, EmptyDict)
          acts == Get(day, activity_type, <<>>)
          day2 == Put(day, activity_type, Append(acts, activity_data))
      IN [raised |-> FALSE,
          calendar |-> Put(cal, month_key, Put(month, day_key, day2))]

\* get_day_activities(date), for a date string fromisoformat accepts
get_day_activities(date) ==
    LET date_obj == ParseDate(date)
    IN Get(Get(load_data("calendar"), MonthKey(date_obj), EmptyDict),
           DayKey(date_obj),
           EmptyDict)

\* str(n) of loop_server.py, for a year, a month or a day.  The decimal
\* string of n in two digits or more is <<n>>, as DayKey has it, so the
\* string of one digit is told apart as <<n, 1>>.
Str(n) == IF n < 10 THEN <<n, 1>> ELSE <<n>>

\* str(n).zfill(2)
Zfill2(n) == <<n>>

\* a or b, for dicts and None
PyOr(a, b) == IF Truthy(a) THEN a ELSE b

\* The month the calendar routes of loop_server.py look up: the dict under
\* the key str(year), and in it the padded month key or else the plain one.
ServerMonthData(calendar_data, year, month) ==
    IF Str(year) \in DOMAIN calendar_data
    THEN PyOr(Get(calendar_data[Str(year)], Zfill2(month), None),
              Get(calendar_data[Str(year)], Str(month), EmptyDict))
    ELSE EmptyDict

\* get_calendar_data(year, month) of loop_server.py: the "calendar" of its
\* answer
get_calendar_data(year, month) ==
    ServerMonthData(load_data("calendar"), year, month)

\* get_day_data(year, month, day) of loop_server.py: the "data" of its
\* answer
get_day_data(year, month, day) ==
    LET month_data == ServerMonthData(load_data("calendar"), year, month)
        day_data == PyOr(Get(month_data, Zfill2(day), None),
                         Get(month_data, Str(day), EmptyDict))
        date_key == <<year, month, day>>
        input_data == Get(load_data("inputs"), date_key, EmptyDict)
    IN [date |-> date_key,
        calendar_data |-> day_data,
        input_data |-> input_data,
        sonic_sketch |-> Get(input_data, "sonic_sketch", None),
        visual_moodboard |-> Get(input_data, "visual_moodboard", None),
        lore_fragment |-> Get(input_data, "lore_fragment", None)]

---------------------------------------------------------------------------
(* The clock *)

\* Time passes: one tick.
Tick ==
    /\ (now + 1) \div TicksPerDay <= MaxDay
    /\ now' = now + 1
    /\ UNCHANGED <<inputs, outputs, calendar, tasks, ret, logged, nlogs,
                    processes, payments, fs, issued, inflight>>

\* Time passes: to the midnight that starts the next day.
NextDay ==
    /\ now \div TicksPerDay < MaxDay
    /\ now' = ((now \div TicksPerDay) + 1) * TicksPerDay
    /\ UNCHANGED <<inputs, outputs, calendar, tasks, ret, logged, nlogs,
                    processes, payments, fs, issued, inflight>>

---------------------------------------------------------------------------
(* Daily inputs *)

\* Mutant of SetSubRecord: the day is created anew on every log, which
\* drops the sub-records it held.
SetSubRecord_recreate(inp, key, field, value) ==
    [Put(inp, key, CreativeInput(key)) EXCEPT ![key][field] = value]

\* Mutant of SetSubRecord: the dict saved holds the day logged alone.
SetSubRecord_alone(inp, key, field, value) ==
    LET day == IF key \in DOMAIN inp THEN inp[key] ELSE CreativeInput(key)
    IN [k \in {key} |-> [day EXCEPT ![field] = value]]

\* inputs with the sub-record field of the day key set to value, the day
\* created first when it is missing
SetSubRecord(inp, key, field, value) ==
    LET inp1 == IF key \notin DOMAIN inp THEN Put(inp, key, CreativeInput(key))
                ELSE inp
    IN [inp1 EXCEPT ![key][field] = value]

\* Mutant of LogSonicSketch: the calendar is updated first, so that a date
\* it rejects leaves inputs as it was.
LogSonicSketch_calendar_first(duration_minutes, description, date) ==
    LET sketch == SonicSketch(duration_minutes, description)
        today == IF date # <<>> THEN date ELSE IsoDate(Today)
        cal == update_calendar_entry(load_data("calendar"), today, "inputs",
                   [type |-> "sonic_sketch", duration |-> duration_minutes,
                    description |-> description])
    IN /\ CalendarSize(load_data("calendar")) < MaxCal
       /\ inputs' = IF cal.raised THEN inputs
                    ELSE SetSubRecord(load_data("inputs"), today,
                                      "sonic_sketch", sketch)
       /\ calendar' = IF cal.raised THEN calendar ELSE cal.calendar
       /\ fs' = IF cal.raised THEN fs ELSE Saved({"inputs", "calendar"})
       /\ ret' = IF cal.raised THEN Raised("ValueError") ELSE Returned("timestamp")
       /\ logged' = logged \cup {<<"sonic_sketch", today>>}
       /\ UNCHANGED <<inflight, now, outputs, tasks, nlogs, processes, payments, issued>>

\* Mutant of LogSonicSketch: the calendar is updated only for a day that
\* held no sketch yet.
LogSonicSketch_once(duration_minutes, description, date) ==
    LET sketch == SonicSketch(duration_minutes, description)
        today == IF date # <<>> THEN date ELSE IsoDate(Today)
        held == Get(Get(load_data("inputs"), today, EmptyDict),
                    "sonic_sketch", None) # None
        cal == update_calendar_entry(load_data("calendar"), today, "inputs",
                   [type |-> "sonic_sketch", duration |-> duration_minutes,
                    description |-> description])
    IN /\ CalendarSize(load_data("calendar")) < MaxCal
       /\ inputs' = SetSubRecord(load_data("inputs"), today, "sonic_sketch",
                                 sketch)
       /\ calendar' = IF cal.raised \/ held THEN calendar ELSE cal.calendar
       /\ fs' = IF cal.raised \/ held THEN Saved({"inputs"})
                ELSE Saved({"inputs", "calendar"})
       /\ ret' = IF cal.raised THEN Raised("ValueError") ELSE Returned("timestamp")
       /\ logged' = logged \cup {<<"sonic_sketch", today>>}
       /\ UNCHANGED <<inflight, now, outputs, tasks, nlogs, processes, payments, issued>>

\* log_sonic_sketch(duration_minutes, description, None, [], date): the
\* inputs file is saved before the calendar is updated.
LogSonicSketch(duration_minutes, description, date) ==
    LET sketch == SonicSketch(duration_minutes, description)
        today == IF date # <<>> THEN date ELSE IsoDate(Today)
        cal == update_calendar_entry(load_data("calendar"), today, "inputs",
                   [type |-> "sonic_sketch", duration |-> duration_minutes,
                    description |-> description])
    IN /\ CalendarSize(load_data("calendar")) < MaxCal
       /\ inputs' = SetSubRecord(load_data("inputs"), today, "sonic_sketch",
                                 sketch)
       /\ calendar' = IF cal.raised THEN calendar ELSE cal.calendar
       /\ fs' = IF cal.raised THEN Saved({"inputs"})
                ELSE Saved({"inputs", "calendar"})
       /\ ret' = IF cal.raised THEN Raised("ValueError") ELSE Returned("timestamp")
       /\ logged' = logged \cup {<<"sonic_sketch", today>>}
       /\ UNCHANGED <<inflight, now, outputs, tasks, nlogs, processes, payments, issued>>

\* Mutant of LogVisualMoodboard: the calendar is updated as well, the way
\* log_sonic_sketch does.
LogVisualMoodboard_calendar(images, theme) ==
    LET today == IsoDate(Today)
        cal == update_calendar_entry(load_data("calendar"), today, "inputs",
                   [type |-> "visual_moodboard", theme |-> theme])
    IN /\ inputs' = SetSubRecord(load_data("inputs"), today, "visual_moodboard",
                                 VisualMoodboard(images, theme))
       /\ calendar' = cal.calendar
       /\ fs' = Saved({"inputs", "calendar"})
       /\ ret' = Returned("timestamp")
       /\ logged' = logged \cup {<<"visual_moodboard", today>>}
       /\ UNCHANGED <<inflight, now, outputs, tasks, nlogs, processes, payments, issued>>

\* log_visual_moodboard(images, theme, [])
LogVisualMoodboard(images, theme) ==
    LET today == IsoDate(Today)
    IN /\ inputs' = SetSubRecord(load_data("inputs"), today, "visual_moodboard",
                                 VisualMoodboard(images, theme))
       /\ ret' = Returned("timestamp")
       /\ fs' = Saved({"inputs"})
       /\ logged' = logged \cup {<<"visual_moodboard", today>>}
       /\ UNCHANGED <<inflight, now, outputs, calendar, tasks, nlogs, processes, payments,
                      issued>>

\* log_lore_fragment(character, fragment, narrative_arc, [])
LogLoreFragment(character, fragment, narrative_arc) ==
    LET today == IsoDate(Today)
    IN /\ inputs' = SetSubRecord(load_data("inputs"), today, "lore_fragment",
                                 LoreFragment(character, fragment, narrative_arc))
       /\ ret' = Returned("timestamp")
       /\ fs' = Saved({"inputs"})
       /\ logged' = logged \cup {<<"lore_fragment", today>>}
       /\ UNCHANGED <<inflight, now, outputs, calendar, tasks, nlogs, processes, payments,
                      issued>>

---------------------------------------------------------------------------
(* Processes.  A process id 'proc_2_20240831_000000' is the tuple          *)
(* <<"proc", 2>> followed by the time of the clock.                        *)

\* f"proc_{len(processes) + 1}_{datetime.datetime.now().strftime(...)}"
NextProcessId(procs) == <<"proc", Cardinality(DOMAIN procs) + 1>> \o NowIso

\* log_creative_process(sample_source, remix_approach, render_format,
\* emotion_tag, tempo, lore_arc_connection)
LogCreativeProcess(sample_source, remix_approach, render_format, emotion_tag, tempo, lore_arc_connection) ==
    LET procs == load_data("processes")
        process_id == NextProcessId(procs)
    IN /\ Cardinality(DOMAIN procs) < MaxProcs
       /\ processes' = Put(procs, process_id,
              CreativeProcess(sample_source, remix_approach, render_format,
                              emotion_tag, tempo, lore_arc_connection))
       /\ fs' = Saved({"processes"})
       /\ ret' = [op |-> "log_creative_process", raised |-> FALSE,
                  value |-> process_id,
                  overwrote |-> process_id \in DOMAIN procs]
       /\ UNCHANGED <<inflight, now, inputs, outputs, calendar, tasks, logged, nlogs,
                      payments, issued>>

---------------------------------------------------------------------------
(* Outputs.  An output id 'micro_3' is the tuple <<"micro", 3>>. *)

\* Mutant of NextOutputId: the count is not filtered by kind.
NextOutputId_unfiltered(outs, kind) == <<kind, Cardinality(DOMAIN outs) + 1>>

\* f"{kind}_{len([o for o in outputs.values() if o.get('output_type') == kind]) + 1}"
NextOutputId(outs, kind) ==
    <<kind, Cardinality({ id \in DOMAIN outs :
                Get(outs[id], "output_type", None) = kind }) + 1>>

\* What a log of an output hands back: the id, and (history) whether a
\* document was already stored under it.
ReturnedId(op, id) ==
    [op |-> op, raised |-> FALSE, value |-> id,
     overwrote |-> id \in DOMAIN load_data("outputs")]

\* log_micro_release(title, category, None, description, [])
LogMicroRelease(title, category, description) ==
    LET output_id == NextOutputId(load_data("outputs"), "micro")
    IN /\ Cardinality(DOMAIN load_data("outputs")) < MaxOutputs
       /\ outputs' = Put(load_data("outputs"), output_id,
                         CreativeOutput(title, "micro", category, description))
       /\ ret' = ReturnedId("log_micro_release", output_id)
       /\ fs' = Saved({"outputs"})
       /\ nlogs' = [nlogs EXCEPT !["micro"] = @ + 1]
       /\ UNCHANGED <<inflight, now, inputs, calendar, tasks, logged, processes, payments,
                      issued>>

\* log_major_release(title, category, None, description, [])
LogMajorRelease(title, category, description) ==
    LET output_id == NextOutputId(load_data("outputs"), "major")
    IN /\ Cardinality(DOMAIN load_data("outputs")) < MaxOutputs
       /\ outputs' = Put(load_data("outputs"), output_id,
                         CreativeOutput(title, "major", category, description))
       /\ ret' = ReturnedId("log_major_release", output_id)
       /\ fs' = Saved({"outputs"})
       /\ nlogs' = [nlogs EXCEPT !["major"] = @ + 1]
       /\ UNCHANGED <<inflight, now, inputs, calendar, tasks, logged, processes, payments,
                      issued>>

\* log_vst3_plugin(title, None, description, []): the outputs file is saved
\* before the calendar is updated; today's date always parses.
LogVst3Plugin(title, description) ==
    LET output_id == NextOutputId(load_data("outputs"), "vst3")
        cal == update_calendar_entry(load_data("calendar"), IsoDate(Today),
                   "outputs",
                   [type |-> "vst3", title |-> title,
                    description |-> description])
    IN /\ Cardinality(DOMAIN load_data("outputs")) < MaxOutputs
       /\ outputs' = Put(load_data("outputs"), output_id,
                         CreativeOutput(title, "vst3", "plugin", description))
       /\ calendar' = IF cal.raised THEN calendar ELSE cal.calendar
       /\ fs' = IF cal.raised THEN Saved({"outputs"})
                ELSE Saved({"outputs", "calendar"})
       /\ ret' = IF cal.raised THEN Raised("ValueError")
                 ELSE ReturnedId("log_vst3_plugin", output_id)
       /\ nlogs' = [nlogs EXCEPT !["vst3"] = @ + 1]
       /\ UNCHANGED <<inflight, now, inputs, tasks, logged, processes, payments, issued>>

\* Mutant of EditedOutput: the edit counts as a release, release_date is
\* set as modified_date is.
EditedOutput_released(doc, title, file_path, description, tags) ==
    LET d1 == IF title # None THEN [doc EXCEPT !.title = title.some] ELSE doc
        d3 == IF description # None
              THEN [d1 EXCEPT !.description = description.some] ELSE d1
    IN Put([d3 EXCEPT !.release_date = NowIso], "modified_date", NowIso)

\* Mutant of EditedOutput: the edit also resets the release date, to the
\* first day of the year.
EditedOutput_redated(doc, title, file_path, description, tags) ==
    LET d1 == IF title # None THEN [doc EXCEPT !.title = title.some] ELSE doc
    IN Put([d1 EXCEPT !.release_date = <<Today[1], 1, 1, 0>>],
           "modified_date", NowIso)

\* The document edit_vst3_plugin saves for doc: the fields that are given
\* replaced, modified_date set.
EditedOutput(doc, title, file_path, description, tags) ==
    LET d1 == IF title # None THEN [doc EXCEPT !.title = title.some] ELSE doc
        d2 == IF file_path # None THEN [d1 EXCEPT !.file_path = file_path]
              ELSE d1
        d3 == IF description # None
              THEN [d2 EXCEPT !.description = description.some] ELSE d2
        d4 == IF tags # None THEN [d3 EXCEPT !.tags = tags.some] ELSE d3
    IN Put(d4, "modified_date", NowIso)

\* Mutant of EditVst3Plugin: the output_type of the document is not
\* looked at.
EditVst3Plugin_anykind(plugin_id, title, file_path, description, tags) ==
    /\ IF plugin_id \notin DOMAIN load_data("outputs")
       THEN /\ UNCHANGED <<outputs, fs>>
            /\ ret' = [op |-> "edit_vst3_plugin", raised |-> FALSE,
                       value |-> FALSE]
       ELSE /\ outputs' = [load_data("outputs") EXCEPT ![plugin_id] =
                    EditedOutput(@, title, file_path, description, tags)]
            /\ fs' = Saved({"outputs"})
            /\ ret' = [op |-> "edit_vst3_plugin", raised |-> FALSE,
                       value |-> TRUE]
    /\ UNCHANGED <<inflight, now, inputs, calendar, tasks, logged, nlogs, processes,
                    payments, issued>>

\* edit_vst3_plugin(plugin_id, title, file_path, description, tags)
EditVst3Plugin(plugin_id, title, file_path, description, tags) ==
    /\ IF plugin_id \notin DOMAIN load_data("outputs")
            \/ Get(load_data("outputs")[plugin_id], "output_type", None)
                   # "vst3"
       THEN /\ UNCHANGED <<outputs, fs>>
            /\ ret' = [op |-> "edit_vst3_plugin", raised |-> FALSE,
                       value |-> FALSE]
       ELSE /\ outputs' = [load_data("outputs") EXCEPT ![plugin_id] =
                    EditedOutput(@, title, file_path, description, tags)]
            /\ fs' = Saved({"outputs"})
            /\ ret' = [op |-> "edit_vst3_plugin", raised |-> FALSE,
                       value |-> TRUE]
    /\ UNCHANGED <<inflight, now, inputs, calendar, tasks, logged, nlogs, processes,
                    payments, issued>>

---------------------------------------------------------------------------
(* Analytics *)

\* Mutant of get_daily_completion_status: the flags read a missing
\* sub-record as {} in place of None.
get_daily_completion_status_default(date) ==
    LET day_input == Get(load_data("inputs"), date, EmptyDict)
        sub(field) == Get(day_input, field, EmptyDict)
    IN [date |-> date,
        sonic_sketch_complete |-> sub("sonic_sketch") # None,
        visual_moodboard_complete |-> sub("visual_moodboard") # None,
        lore_fragment_complete |-> sub("lore_fragment") # None,
        daily_loop_complete |->
            PyAll(<<sub("sonic_sketch"), sub("visual_moodboard"),
                    sub("lore_fragment")>>)]

\* get_daily_completion_status(date)
get_daily_completion_status(date) ==
    LET day_input == Get(load_data("inputs"), date, EmptyDict)
        sub(field) == Get(day_input, field, None)
    IN [date |-> date,
        sonic_sketch_complete |-> sub("sonic_sketch") # None,
        visual_moodboard_complete |-> sub("visual_moodboard") # None,
        lore_fragment_complete |-> sub("lore_fragment") # None,
        daily_loop_complete |->
            PyAll(<<sub("sonic_sketch"), sub("visual_moodboard"),
                    sub("lore_fragment")>>)]

\* Mutant of StreakFrom: an if in place of the while, so the walk stops
\* after today.
StreakFrom_once(completed_dates, current_date) ==
    IF current_date \in completed_dates THEN 1 ELSE 0

RECURSIVE StreakFrom(_, _)
\* The while loop of _calculate_current_streak.
StreakFrom(completed_dates, current_date) ==
    IF current_date \in completed_dates
    THEN 1 + StreakFrom(completed_dates, PrevDate(current_date))
    ELSE 0

\* Mutant of calculate_current_streak: when today is not complete the walk
\* starts at yesterday.
calculate_current_streak_grace(completed_days) ==
    IF completed_days = {} THEN [raised |-> FALSE, value |-> 0]
    ELSE IF \E d \in completed_days : ~IsIsoString(d)
    THEN [raised |-> TRUE, value |-> 0]
    ELSE LET dates == {ParseDate(d) : d \in completed_days}
         IN [raised |-> FALSE,
             value |-> IF Today \in dates THEN StreakFrom(dates, Today)
                       ELSE StreakFrom(dates, PrevDate(Today))]

\* _calculate_current_streak(completed_days): raises when a completed
\* day's key is no ISO date string.
calculate_current_streak(completed_days) ==
    IF completed_days = {} THEN [raised |-> FALSE, value |-> 0]
    ELSE IF \E d \in completed_days : ~IsIsoString(d)
    THEN [raised |-> TRUE, value |-> 0]
    ELSE [raised |-> FALSE,
          value |-> StreakFrom({ParseDate(d) : d \in completed_days}, Today)]

\* Mutant of CompletedDays: any([...]) in place of all([...]), so a day
\* with one sub-record counts as completed.
CompletedDays_any(inp) ==
    { date \in DOMAIN inp :
        \/ Get(inp[date], "sonic_sketch", None) # None
        \/ Get(inp[date], "visual_moodboard", None) # None
        \/ Get(inp[date], "lore_fragment", None) # None }

\* The keys the list comprehension of get_creative_stats keeps.
CompletedDays(inp) ==
    { date \in DOMAIN inp :
        PyAll(<<Get(inp[date], "sonic_sketch", None),
                Get(inp[date], "visual_moodboard", None),
                Get(inp[date], "lore_fragment", None)>>) }

\* The outputs whose output_type is kind.
OutputsOfKind(outs, kind) ==
    { id \in DOMAIN outs : Get(outs[id], "output_type", None) = kind }

\* Mutant of CompletionRate: the ratio is not multiplied by 100.
CompletionRate_ratio(n_completed, n_inputs) ==
    <<n_completed, Max(n_inputs, 1)>>

\* len(completed_days) / max(len(inputs), 1) * 100, as the fraction
\* <<numerator, denominator>>
CompletionRate(n_completed, n_inputs) ==
    <<n_completed * 100, Max(n_inputs, 1)>>

\* get_creative_stats()
get_creative_stats ==
    LET completed_days == CompletedDays(load_data("inputs"))
        streak == calculate_current_streak(completed_days)
    IN IF streak.raised THEN [raised |-> TRUE]
       ELSE [raised |-> FALSE,
             total_input_days |-> Cardinality(DOMAIN load_data("inputs")),
             completed_input_days |-> Cardinality(completed_days),
             completion_rate |-> CompletionRate(Cardinality(completed_days),
                                                Cardinality(DOMAIN load_data("inputs"))),
             total_micro_releases |-> 
                 Cardinality(OutputsOfKind(load_data("outputs"), "micro")),
             total_major_releases |-> 
                 Cardinality(OutputsOfKind(load_data("outputs"), "major")),
             total_vst3_plugins |-> 
                 Cardinality(OutputsOfKind(load_data("outputs"), "vst3")),
             current_streak |-> streak.value]

---------------------------------------------------------------------------
(* Tasks.  A task file is [exists, tasks]: whether the file is there and   *)
(* the list under its "tasks" key.  A task id, the decimal string of a     *)
(* number, is that number.                                                 *)

\* self._load_data(tasks_file) followed by the default for a missing
\* "tasks" key: the list the operation works on.
LoadTasks(file) ==
    IF file.exists /\ "tasks" \in DOMAIN file THEN file.tasks ELSE <<>>

\* get_tasks(task_type)
get_tasks(task_type) == LoadTasks(tasks[task_type])

\* any(task["id"] == task_id for task in task_list)
HasTaskId(task_list, task_id) ==
    \E i \in DOMAIN task_list : task_list[i].id = task_id

\* Mutant of FreeTaskId: the id is count + 1 with no collision check.
FreeTaskId_count(task_list, task_id) == task_id

RECURSIVE FreeTaskId(_, _)
\* The while loop of add_task: task_id incremented until no task has it.
FreeTaskId(task_list, task_id) ==
    IF HasTaskId(task_list, task_id) THEN FreeTaskId(task_list, task_id + 1)
    ELSE task_id

\* add_task on the file: the file it saves and the task it returns.
add_task(file, text, priority) ==
    LET task_list == LoadTasks(file)
        task_id == FreeTaskId(task_list, Len(task_list) + 1)
        new_task == [id |-> task_id, text |-> text, completed |-> FALSE,
                     priority |-> priority, created_at |-> NowIso,
                     completed_at |-> None]
    IN [raised |-> FALSE,
        file |-> [exists |-> TRUE, tasks |-> Append(task_list, new_task)],
        value |-> new_task]

\* Mutant of UpdatedTask: completed_at is set when the task is completed
\* and kept when it is reopened.
UpdatedTask_keep(task, updates) ==
    LET t1 == IF "completed" \in DOMAIN updates
              THEN [task EXCEPT !.completed = updates.completed,
                                !.completed_at = IF updates.completed
                                                 THEN Some(NowIso) ELSE @]
              ELSE task
        t2 == IF "text" \in DOMAIN updates
              THEN [t1 EXCEPT !.text = updates.text] ELSE t1
    IN IF "priority" \in DOMAIN updates
       THEN [t2 EXCEPT !.priority = updates.priority] ELSE t2

\* The task update_task saves for task under the dict updates.
UpdatedTask(task, updates) ==
    LET t1 == IF "completed" \in DOMAIN updates
              THEN [task EXCEPT !.completed = updates.completed,
                                !.completed_at = IF updates.completed
                                                 THEN Some(NowIso) ELSE None]
              ELSE task
        t2 == IF "text" \in DOMAIN updates
              THEN [t1 EXCEPT !.text = updates.text] ELSE t1
    IN IF "priority" \in DOMAIN updates
       THEN [t2 EXCEPT !.priority = updates.priority] ELSE t2

\* update_task on the file: the first task with the id is updated and the
\* file saved; ValueError, and nothing saved, when no task has the id.
update_task(file, task_id, updates) ==
    LET task_list == LoadTasks(file)
    IN IF ~HasTaskId(task_list, task_id)
       THEN [raised |-> TRUE, file |-> file, value |-> None]
       ELSE LET i == CHOOSE j \in DOMAIN task_list :
                        /\ task_list[j].id = task_id
                        /\ \A k \in 1..(j - 1) : task_list[k].id # task_id
                task == UpdatedTask(task_list[i], updates)
            IN [raised |-> FALSE,
                file |-> [exists |-> TRUE,
                          tasks |-> [task_list EXCEPT ![i] = task]],
                value |-> task]

\* [task for task in task_list if task["id"] != task_id]
WithoutTaskId(task_list, task_id) ==
    SelectSeq(task_list, LAMBDA task : task.id # task_id)

\* Mutant of delete_task: the id is taken for the position in the list.
delete_task_by_position(file, task_id) ==
    LET task_list == LoadTasks(file)
    IN IF task_id \notin DOMAIN task_list
       THEN [raised |-> TRUE, file |-> file]
       ELSE [raised |-> FALSE,
             file |-> [exists |-> TRUE,
                       tasks |-> [i \in 1..(Len(task_list) - 1) |->
                                     IF i < task_id THEN task_list[i]
                                     ELSE task_list[i + 1]]]]

\* delete_task on the file: ValueError, and nothing saved, when the list
\* without the id is as long as the list.
delete_task(file, task_id) ==
    LET task_list == LoadTasks(file)
        kept == WithoutTaskId(task_list, task_id)
    IN IF Len(kept) = Len(task_list)
       THEN [raised |-> TRUE, file |-> file]
       ELSE [raised |-> FALSE, file |-> [exists |-> TRUE, tasks |-> kept]]

\* What a task operation hands back, with the arguments it was called with.
TaskResult(op, task_type, task_id, res) ==
    [op |-> op, task_type |-> task_type, task_id |-> task_id,
     raised |-> res.raised,
     error |-> IF res.raised THEN "ValueError: not found" ELSE ""]

\* add_task(task_type, text, priority)
AddTask(task_type, text, priority) ==
    LET res == add_task(tasks[task_type], text, priority)
    IN /\ Len(LoadTasks(tasks[task_type])) < MaxTasks
       /\ tasks' = [tasks EXCEPT ![task_type] = res.file]
       /\ ret' = TaskResult("add_task", task_type, res.value.id, res)
       /\ issued' = issued \cup {<<task_type, res.value.id>>}
       /\ UNCHANGED <<inflight, now, inputs, outputs, calendar, logged, nlogs, processes,
                      payments, fs>>

\* update_task(task_type, task_id, updates)
UpdateTask(task_type, task_id, updates) ==
    LET res == update_task(tasks[task_type], task_id, updates)
    IN /\ tasks' = [tasks EXCEPT ![task_type] = res.file]
       /\ ret' = TaskResult("update_task", task_type, task_id, res)
       /\ UNCHANGED <<inflight, now, inputs, outputs, calendar, logged, nlogs, processes,
                      payments, fs, issued>>

\* delete_task(task_type, task_id)
DeleteTask(task_type, task_id) ==
    LET res == delete_task(tasks[task_type], task_id)
    IN /\ tasks' = [tasks EXCEPT ![task_type] = res.file]
       /\ ret' = TaskResult("delete_task", task_type, task_id, res)
       /\ UNCHANGED <<inflight, now, inputs, outputs, calendar, logged, nlogs, processes,
                      payments, fs, issued>>

---------------------------------------------------------------------------
(* Payments.  payments.json holds {'payments': [...]}; a payment id, the   *)
(* decimal string of a number, is that number; an amount is a whole number *)
(* of the currency.                                                        *)

\* default_payments of get_payments
DefaultPayments ==
    << [id |-> 1, name |-> "Ableton Live Suite", amount |-> 20,
        category |-> "creative", notes |-> ""],
       [id |-> 2, name |-> "Plugin Subscriptions", amount |-> 30,
        category |-> "creative", notes |-> ""],
       [id |-> 3, name |-> "Sample Libraries", amount |-> 15,
        category |-> "creative", notes |-> ""],
       [id |-> 4, name |-> "Cloud Storage", amount |-> 10,
        category |-> "services", notes |-> ""],
       [id |-> 5, name |-> "Streaming Platforms", amount |-> 25,
        category |-> "services", notes |-> ""],
       [id |-> 6, name |-> "Domain & Hosting", amount |-> 12,
        category |-> "services", notes |-> ""],
       [id |-> 7, name |-> "Gym Membership", amount |-> 50,
        category |-> "lifestyle", notes |-> ""],
       [id |-> 8, name |-> "Supplements", amount |-> 40,
        category |-> "lifestyle", notes |-> ""] >>

\* payments_file.exists()
PaymentsFileExists == fs["payments"] # "missing"

\* next((p for p in payments if p['id'] == payment_id), None): the index
\* of the payment, 0 for None.
FindPayment(payment_list, payment_id) ==
    IF \E i \in DOMAIN payment_list : payment_list[i].id = payment_id
    THEN CHOOSE i \in DOMAIN payment_list :
             /\ payment_list[i].id = payment_id
             /\ \A k \in 1..(i - 1) : payment_list[k].id # payment_id
    ELSE 0

\* What a payment operation does: whether and what it raised, the object
\* it saved (saved false: nothing was written) and what it returned.
PaymentFailure(error) ==
    [raised |-> TRUE, error |-> error, saved |-> FALSE, value |-> None]

\* Mutant of get_payments: the defaults are returned and not saved.
get_payments_unsaved(exists, payments_data) ==
    IF ~exists
    THEN [raised |-> FALSE, error |-> "", saved |-> FALSE,
          value |-> DefaultPayments]
    ELSE [raised |-> FALSE, error |-> "", saved |-> FALSE,
          value |-> Get(payments_data, "payments", <<>>)]

\* get_payments(): on a missing file the defaults are saved and returned.
get_payments(exists, payments_data) ==
    IF ~exists
    THEN [raised |-> FALSE, error |-> "", saved |-> TRUE,
          data |-> [payments |-> DefaultPayments], value |-> DefaultPayments]
    ELSE [raised |-> FALSE, error |-> "", saved |-> FALSE,
          value |-> Get(payments_data, "payments", <<>>)]

\* max(existing_ids, default=0) + 1
NextPaymentId(payment_list) ==
    IF payment_list = <<>> THEN 1
    ELSE 1 + CHOOSE n \in {payment_list[i].id : i \in DOMAIN payment_list} :
                 \A i \in DOMAIN payment_list : payment_list[i].id <= n

\* add_payment(name, amount, category, notes): payments_data['payments']
\* is a KeyError when the file is there and _load_data gave {}.
add_payment(exists, payments_data, name, amount, category, notes) ==
    LET data == IF exists THEN payments_data ELSE [payments |-> <<>>]
    IN IF "payments" \notin DOMAIN data
       THEN PaymentFailure("KeyError: 'payments'")
       ELSE LET new_id == NextPaymentId(data.payments)
                new_payment == [id |-> new_id, name |-> name,
                                amount |-> amount, category |-> category,
                                notes |-> notes, created_at |-> NowIso]
            IN [raised |-> FALSE, error |-> "", saved |-> TRUE,
                data |-> [payments |-> Append(data.payments, new_payment)],
                value |-> new_id]

\* Mutant of update_payment: a payment that is not found is added.
update_payment_upsert(exists, payments_data, payment_id, name, amount, category, notes) ==
    IF ~exists THEN PaymentFailure("ValueError: No payments found")
    ELSE IF "payments" \notin DOMAIN payments_data
    THEN PaymentFailure("KeyError: 'payments'")
    ELSE LET i == FindPayment(payments_data.payments, payment_id)
             payment == [id |-> payment_id, name |-> name, amount |-> amount,
                         category |-> category, notes |-> notes,
                         updated_at |-> NowIso]
         IN [raised |-> i = 0,
             error |-> IF i = 0 THEN "ValueError: not found" ELSE "",
             saved |-> TRUE,
             data |-> [payments |->
                          IF i = 0 THEN Append(payments_data.payments, payment)
                          ELSE [payments_data.payments EXCEPT ![i] = payment]],
             value |-> None]

\* update_payment(payment_id, name, amount, category, notes)
update_payment(exists, payments_data, payment_id, name, amount, category, notes) ==
    IF ~exists THEN PaymentFailure("ValueError: No payments found")
    ELSE IF "payments" \notin DOMAIN payments_data
    THEN PaymentFailure("KeyError: 'payments'")
    ELSE LET i == FindPayment(payments_data.payments, payment_id)
         IN IF i = 0 THEN PaymentFailure("ValueError: not found")
            ELSE LET p == payments_data.payments[i]
                     payment == Put([p EXCEPT !.name = name,
                                              !.amount = amount,
                                              !.category = category,
                                              !.notes = notes],
                                    "updated_at", NowIso)
                 IN [raised |-> FALSE, error |-> "", saved |-> TRUE,
                     data |-> [payments |->
                         [payments_data.payments EXCEPT ![i] = payment]],
                     value |-> None]

\* Mutant of delete_payment: the payment found is removed by its number
\* taken as a 0-based position in the list.
delete_payment_by_index(exists, payments_data, payment_id) ==
    IF ~exists THEN PaymentFailure("ValueError: No payments found")
    ELSE IF "payments" \notin DOMAIN payments_data
    THEN PaymentFailure("KeyError: 'payments'")
    ELSE IF FindPayment(payments_data.payments, payment_id) = 0
    THEN PaymentFailure("ValueError: not found")
    ELSE [raised |-> FALSE, error |-> "", saved |-> TRUE,
          data |-> [payments |->
              [i \in 1..(Len(payments_data.payments) - 1) |->
                  IF i <= payment_id THEN payments_data.payments[i]
                  ELSE payments_data.payments[i + 1]]],
          value |-> None]

\* delete_payment(payment_id)
delete_payment(exists, payments_data, payment_id) ==
    IF ~exists THEN PaymentFailure("ValueError: No payments found")
    ELSE IF "payments" \notin DOMAIN payments_data
    THEN PaymentFailure("KeyError: 'payments'")
    ELSE IF FindPayment(payments_data.payments, payment_id) = 0
    THEN PaymentFailure("ValueError: not found")
    ELSE [raised |-> FALSE, error |-> "", saved |-> TRUE,
          data |-> [payments |-> SelectSeq(payments_data.payments,
                                     LAMBDA p : p.id # payment_id)],
          value |-> None]

\* What a payment operation hands back, with the id it was called with:
\* get_payments returns the list, add_payment the new id, the others None.
PaymentResult(op, payment_id, res) ==
    IF ~res.raised /\ op = "get_payments"
    THEN [op |-> op, payment_id |-> payment_id, raised |-> FALSE,
          error |-> "", payments |-> res.value]
    ELSE IF ~res.raised /\ op = "add_payment"
    THEN [op |-> op, payment_id |-> payment_id, raised |-> FALSE,
          error |-> "", new_id |-> res.value]
    ELSE [op |-> op, payment_id |-> payment_id, raised |-> res.raised,
          error |-> res.error]

\* A payment operation as a step: the file is written when the operation
\* saved, and ret tells the operation, its id argument and its outcome.
PaymentStep(op, payment_id, res) ==
    /\ payments' = IF res.saved THEN res.data ELSE payments
    /\ fs' = IF res.saved THEN Saved({"payments"}) ELSE fs
    /\ ret' = PaymentResult(op, payment_id, res)
    /\ UNCHANGED <<inflight, now, inputs, outputs, calendar, tasks, logged, nlogs,
                   processes, issued>>

\* get_payments()
GetPayments ==
    PaymentStep("get_payments", 0,
                get_payments(PaymentsFileExists, load_data("payments")))

\* add_payment(name, amount, category, notes)
AddPayment(name, amount, category, notes) ==
    /\ Len(Get(load_data("payments"), "payments", <<>>))
           < Len(DefaultPayments) + MaxPayments
    /\ PaymentStep("add_payment", 0,
                   add_payment(PaymentsFileExists, load_data("payments"),
                               name, amount, category, notes))

\* update_payment(payment_id, name, amount, category, notes)
UpdatePayment(payment_id, name, amount, category, notes) ==
    PaymentStep("update_payment", payment_id,
                update_payment(PaymentsFileExists, load_data("payments"),
                               payment_id, name, amount, category, notes))

\* delete_payment(payment_id)
DeletePayment(payment_id) ==
    PaymentStep("delete_payment", payment_id,
                delete_payment(PaymentsFileExists, load_data("payments"),
                               payment_id))

\* The answer of the edit_vst3 route of loop_server.py: success is what
\* edit_vst3_plugin returned.
EditVst3Response(r) ==
    IF r.raised THEN [status |-> 400, success |-> FALSE]
    ELSE [status |-> 200, success |-> r.value]

\* The answer of a Flask route of loop_server.py that wraps its call of
\* the agent in try/except: HTTP 400 and success false when it raised.
HttpResponse(r) ==
    IF r.raised THEN [status |-> 400, success |-> FALSE, error |-> r.error]
    ELSE [status |-> 200, success |-> TRUE, error |-> ""]

\* The fixed targets of get_weekly_progress and get_monthly_progress.
TargetMicroPerWeek == 1
TargetVst3PerWeek == 1
TargetMajorPerMonth == 1
TargetVst3PerMonth == 4

\* The ids of the outputs of kind whose release date is on or after start:
\* the loop both progress reports run over outputs.items().
ReleasedSince(outs, kind, start) ==
    { id \in DOMAIN outs :
        /\ DateLeq(start, ParseDate(outs[id].release_date))
        /\ Get(outs[id], "output_type", None) = kind }

\* Mutant of get_weekly_progress: the goal needs a micro release or a
\* plugin, not both.
get_weekly_progress_or ==
    LET week_start == SubDays(Today, Weekday(Today))
        this_week_micros == 
            ReleasedSince(load_data("outputs"), "micro", week_start)
        this_week_vst3 == 
            ReleasedSince(load_data("outputs"), "vst3", week_start)
    IN [raised |-> FALSE,
        week_start |-> IsoDate(week_start),
        micro_releases_this_week |-> Cardinality(this_week_micros),
        vst3_plugins_this_week |-> Cardinality(this_week_vst3),
        target_micro_releases |-> TargetMicroPerWeek,
        target_vst3_plugins |-> TargetVst3PerWeek,
        weekly_goal_met |->
            \/ Cardinality(this_week_micros) >= TargetMicroPerWeek
            \/ Cardinality(this_week_vst3) >= TargetVst3PerWeek,
        micro_releases |-> this_week_micros,
        vst3_plugins |-> this_week_vst3]

\* get_weekly_progress(): raises when a release_date does not parse.  The
\* lists micro_releases and vst3_plugins are given by the ids of their
\* documents.
get_weekly_progress ==
    LET week_start == SubDays(Today, Weekday(Today))
        this_week_micros == 
            ReleasedSince(load_data("outputs"), "micro", week_start)
        this_week_vst3 == 
            ReleasedSince(load_data("outputs"), "vst3", week_start)
    IN IF \E id \in DOMAIN load_data("outputs") :
              ~IsIsoString(load_data("outputs")[id].release_date)
       THEN [raised |-> TRUE]
       ELSE [raised |-> FALSE,
             week_start |-> IsoDate(week_start),
             micro_releases_this_week |-> Cardinality(this_week_micros),
             vst3_plugins_this_week |-> Cardinality(this_week_vst3),
             target_micro_releases |-> TargetMicroPerWeek,
             target_vst3_plugins |-> TargetVst3PerWeek,
             weekly_goal_met |->
                 /\ Cardinality(this_week_micros) >= TargetMicroPerWeek
                 /\ Cardinality(this_week_vst3) >= TargetVst3PerWeek,
             micro_releases |-> this_week_micros,
             vst3_plugins |-> this_week_vst3]

\* Mutant of get_monthly_progress: more than four plugins are asked for.
get_monthly_progress_strict ==
    LET month_start == <<Today[1], Today[2], 1>>
        this_month_majors == 
            ReleasedSince(load_data("outputs"), "major", month_start)
        this_month_vst3 == 
            ReleasedSince(load_data("outputs"), "vst3", month_start)
    IN [raised |-> FALSE,
        month_start |-> IsoDate(month_start),
        major_releases_this_month |-> Cardinality(this_month_majors),
        vst3_plugins_this_month |-> Cardinality(this_month_vst3),
        target_major_releases |-> TargetMajorPerMonth,
        target_vst3_plugins |-> TargetVst3PerMonth,
        monthly_goal_met |->
            /\ Cardinality(this_month_majors) >= TargetMajorPerMonth
            /\ Cardinality(this_month_vst3) > TargetVst3PerMonth,
        major_releases |-> this_month_majors,
        vst3_plugins |-> this_month_vst3]

\* get_monthly_progress(): raises when a release_date does not parse.
get_monthly_progress ==
    LET month_start == <<Today[1], Today[2], 1>>
        this_month_majors == 
            ReleasedSince(load_data("outputs"), "major", month_start)
        this_month_vst3 == 
            ReleasedSince(load_data("outputs"), "vst3", month_start)
    IN IF \E id \in DOMAIN load_data("outputs") :
              ~IsIsoString(load_data("outputs")[id].release_date)
       THEN [raised |-> TRUE]
       ELSE [raised |-> FALSE,
             month_start |-> IsoDate(month_start),
             major_releases_this_month |-> Cardinality(this_month_majors),
             vst3_plugins_this_month |-> Cardinality(this_month_vst3),
             target_major_releases |-> TargetMajorPerMonth,
             target_vst3_plugins |-> TargetVst3PerMonth,
             monthly_goal_met |->
                 /\ Cardinality(this_month_majors) >= TargetMajorPerMonth
                 /\ Cardinality(this_month_vst3) >= TargetVst3PerMonth,
             major_releases |-> this_month_majors,
             vst3_plugins |-> this_month_vst3]

---------------------------------------------------------------------------
(* The arguments the operations are called with *)

\* Date strings log_sonic_sketch is given: a datetime string
\* ('2024-09-01T00:00:00') and a string fromisoformat rejects ('2024-13-01').
DatetimeArg == <<2024, 9, 1, 0>>
MalformedArg == <<2024, 13, 1>>
ModelDays == { AddDays(Epoch, n) : n \in 0..MaxDay }
\* Every key the inputs file is asked for, one day before the model's
\* first among them.
DateKeys ==
    { IsoDate(d) : d \in ModelDays }
        \cup {DatetimeArg, MalformedArg, IsoDate(PrevDate(Epoch))}

TaskTypes == {"weekly", "monthly"}

\* The callers that can be inside an operation at one time: two requests
\* of the threaded Flask server, or the server and the command line.
Clients == {"a", "b"}

\* The client is inside no operation.
Idle == [pc |-> "idle"]

---------------------------------------------------------------------------
(* The state after CreativeLoopAgent() on an empty loop_data directory:    *)
(* _initialize_data_files writes {} to the inputs, processes, outputs,     *)
(* stats and calendar files; no task file exists.                          *)

Init ==
    /\ now = 0
    /\ inputs = EmptyDict
    /\ outputs = EmptyDict
    /\ calendar = EmptyDict
    /\ tasks = [t \in TaskTypes |-> [exists |-> FALSE, tasks |-> <<>>]]
    /\ ret = Returned("agent")
    /\ logged = {}
    /\ nlogs = [k \in {"micro", "major", "vst3"} |-> 0]
    /\ processes = EmptyDict
    /\ payments = [payments |-> <<>>]
    /\ fs = [n \in FileNames |-> IF n = "payments" THEN "missing" ELSE "ok"]
    /\ issued = {}
    /\ inflight = [c \in Clients |-> Idle]

---------------------------------------------------------------------------
(* The daily inputs and the clock.  A sketch is logged with no date (for    *)
(* today), for the first day of the model (on that day or later, as the    *)
(* dashboard does when a past day is edited) or with a malformed date.     *)

NextInputs ==
    \/ \E date \in {<<>>, IsoDate(Epoch), MalformedArg} :
           LogSonicSketch(30, "riff", date)
    \/ LogVisualMoodboard(<<"a.png">>, "neon")
    \/ LogLoreFragment("Vex", "the gate opens", "arc1")
    \/ NextDay

SpecInputs == Init /\ [][NextInputs]_vars

---------------------------------------------------------------------------
(* The outputs: logs of the three kinds with edits of plugins in between,  *)
(* all within one tick of the clock.                                       *)

OutputKinds == {"micro", "major", "vst3"}

\* The total number of output logs made.
OutputLogs == nlogs["micro"] + nlogs["major"] + nlogs["vst3"]

\* The output logs made while the reports are watched.
MaxReported == 1

\* The ids edit_vst3_plugin is called with: the first two of every kind and
\* one no log assigns.
EditIds == { <<k, n>> : k \in OutputKinds, n \in 1..2 } \cup {<<"vst3", 0>>}

NextOutputs ==
    \/ LogMicroRelease("beat one", "beat", "")
    \/ LogMajorRelease("album", "track", "")
    \/ LogVst3Plugin("synth", "")
    \/ \E id \in EditIds, title \in {None, Some("synth v2")},
          description \in {None, Some("fixed")} :
           EditVst3Plugin(id, title, None, description, None)

SpecOutputs == Init /\ [][NextOutputs]_vars

---------------------------------------------------------------------------
(* The outputs over the days: the logs and the clock.                      *)

NextProgress ==
    \/ LogMicroRelease("beat one", "beat", "")
    \/ LogMajorRelease("album", "track", "")
    \/ LogVst3Plugin("synth", "")
    \/ NextDay

SpecProgress == Init /\ [][NextProgress]_vars

---------------------------------------------------------------------------
(* The task lists *)

\* The ids update_task and delete_task are called with.
TaskIdArgs == 1..(MaxTasks + 1)

\* The ticks of the clock while tasks are completed and reopened.
MaxFlagTicks == 1

\* The dicts update_task is called with.
TaskUpdates == {[completed |-> TRUE], [completed |-> FALSE]}

NextTasks ==
    \/ \E t \in TaskTypes : AddTask(t, "mix", "medium")
    \/ \E t \in TaskTypes, id \in TaskIdArgs, u \in TaskUpdates :
           UpdateTask(t, id, u)
    \/ \E t \in TaskTypes, id \in TaskIdArgs : DeleteTask(t, id)

SpecTasks == Init /\ [][NextTasks]_vars

---------------------------------------------------------------------------
(* The weekly tasks completed, reopened and edited, as the clock ticks *)

\* The dicts update_task is called with that do not mention completed.
TaskEdits == {[text |-> "remix"], [priority |-> "high"]}

NextTaskFlags ==
    \/ AddTask("weekly", "mix", "medium")
    \/ \E id \in TaskIdArgs, u \in TaskUpdates \cup TaskEdits :
           UpdateTask("weekly", id, u)
    \/ now < MaxFlagTicks /\ Tick

SpecTaskFlags == Init /\ [][NextTaskFlags]_vars

---------------------------------------------------------------------------
(* The task lists under add_task and delete_task alone *)

NextTaskIds ==
    \/ \E t \in TaskTypes : AddTask(t, "mix", "medium")
    \/ \E t \in TaskTypes, id \in TaskIdArgs : DeleteTask(t, id)

SpecTaskIds == Init /\ [][NextTaskIds]_vars

---------------------------------------------------------------------------
(* The outputs and the processes: the logs, and edits of plugins in        *)
(* between.                                                                *)

NextEdits ==
    \/ NextOutputs
    \/ LogCreativeProcess("vinyl", "chop", "wav", "calm", None, "")

SpecEdits == Init /\ [][NextEdits]_vars

---------------------------------------------------------------------------
(* The calendar: the two operations that call update_calendar_entry, and   *)
(* the clock.  A sketch is logged for today, for the first day, with a     *)
(* datetime string or with a malformed date.                               *)

\* The date arguments of log_sonic_sketch.
SketchDates == {<<>>, IsoDate(Epoch), DatetimeArg, MalformedArg}

NextCalendar ==
    \/ \E date \in SketchDates : LogSonicSketch(30, "riff", date)
    \/ LogVst3Plugin("synth", "")
    \/ NextDay

SpecCalendar == Init /\ [][NextCalendar]_vars

---------------------------------------------------------------------------
(* The reports: sketches logged for today and under a string that is no   *)
(* date, moodboards and lore, over the days; releases on the first day.    *)

NextReports ==
    \/ \E date \in {<<>>, MalformedArg} : LogSonicSketch(30, "riff", date)
    \/ LogVisualMoodboard(<<"a.png">>, "neon")
    \/ LogLoreFragment("Vex", "the gate opens", "arc1")
    \/ /\ Today = Epoch
       /\ OutputLogs < MaxReported
       /\ LogMicroRelease("beat one", "beat", "")
    \/ NextDay

SpecReports == Init /\ [][NextReports]_vars

---------------------------------------------------------------------------
(* The whole store: every operation that writes, within one tick of the    *)
(* clock, records being added while the store holds few.                   *)

\* The ids update_payment and delete_payment are called with.
PaymentIdArgs == {1, Len(DefaultPayments) + 1}

\* The sub-records the days of inputs hold.
SubRecords(inp) ==
    { <<key, field>> \in
          (DOMAIN inp) \X {"sonic_sketch", "visual_moodboard", "lore_fragment"} :
        inp[key][field] # None }

\* The payments of a list that add_payment added.
AddedPayments(payment_list) ==
    { i \in DOMAIN payment_list : "created_at" \in DOMAIN payment_list[i] }

\* The number of records the operations have stored; the payments file
\* counts for one once it is there.
StoreSize ==
    Cardinality(SubRecords(inputs)) + Cardinality(DOMAIN processes)
    + Cardinality(DOMAIN outputs) + Len(get_tasks("weekly"))
    + Len(get_tasks("monthly"))
    + (IF PaymentsFileExists THEN 1 ELSE 0)
    + Cardinality(AddedPayments(payments.payments))

NextStore ==
    \/ /\ StoreSize < MaxStore
       /\ \/ \E date \in {<<>>, MalformedArg} : LogSonicSketch(30, "riff", date)
          \/ LogVisualMoodboard(<<"a.png">>, "neon")
          \/ LogLoreFragment("Nyx", "she woke", "origin")
          \/ LogCreativeProcess("vinyl", "chop", "wav", "calm", None, "")
          \/ LogMicroRelease("loop", "beat", "")
          \/ LogMajorRelease("album", "track", "")
          \/ LogVst3Plugin("synth", "")
          \/ \E t \in TaskTypes : AddTask(t, "mix", "medium")
          \/ GetPayments
          \/ AddPayment("Rent", 700, "lifestyle", "")
    \/ \E id \in {<<"vst3", 1>>, <<"micro", 1>>} :
           EditVst3Plugin(id, Some("synth v2"), None, None, None)
    \/ \E t \in TaskTypes : UpdateTask(t, 1, [completed |-> TRUE])
    \/ \E t \in TaskTypes : DeleteTask(t, 1)
    \/ \E id \in PaymentIdArgs : UpdatePayment(id, "Rent", 750, "lifestyle", "")
    \/ \E id \in PaymentIdArgs : DeletePayment(id)

SpecStore == Init /\ [][NextStore]_vars

---------------------------------------------------------------------------
(* Plugins edited on later days: a micro release and plugins are logged    *)
(* and edited over the days, so that an edit falls in a week or a month    *)
(* after the release.                                                      *)

NextEdited ==
    \/ nlogs["micro"] < MaxKept /\ LogMicroRelease("beat one", "beat", "")
    \/ nlogs["vst3"] <= MaxKept /\ LogVst3Plugin("synth", "")
    \/ \E id \in {<<"vst3", 1>>, <<"micro", 1>>},
          title \in {None, Some("synth v2")} :
           EditVst3Plugin(id, title, None, None, None)
    \/ NextDay

SpecEdited == Init /\ [][NextEdited]_vars

---------------------------------------------------------------------------
(* The payments from a store that has no payments file: they are read,     *)
(* added, updated and deleted in every order, over one tick of the clock.  *)

NextPayments ==
    \/ GetPayments
    \/ AddPayment("Rent", 750, "lifestyle", "")
    \/ UpdatePayment(1, "Gym", 55, "lifestyle", "")
    \/ \E id \in PaymentIdArgs : DeletePayment(id)
    \/ now < MaxFlagTicks /\ Tick

SpecPayments == Init /\ [][NextPayments]_vars

---------------------------------------------------------------------------
(* The calendar as an index of the sketches: sketches of two lengths are   *)
(* logged for today and for the first day, dates of the form YYYY-MM-DD,   *)
(* with moodboards and plugins logged in between, over the days.           *)

\* The sketches that are logged: their duration and description.
SketchArgs == {<<30, "riff">>, <<45, "pad">>}

NextIndex ==
    \/ \E a \in SketchArgs : \E date \in {<<>>, IsoDate(Epoch)} :
           LogSonicSketch(a[1], a[2], date)
    \/ /\ <<"visual_moodboard", IsoDate(Today)>> \notin logged
       /\ LogVisualMoodboard(<<"a.png">>, "neon")
    \/ nlogs["vst3"] < MaxKept /\ LogVst3Plugin("synth", "")
    \/ NextDay

SpecIndex == Init /\ [][NextIndex]_vars

---------------------------------------------------------------------------
(* The reports while the store is worked on within one day: the inputs of  *)
(* the day and outputs are logged, a plugin is edited, a task and the      *)
(* payments are added and deleted.                                         *)

\* Some progress is reported: today's loop is complete, or the weekly or
\* the monthly goal is met.
Progressed ==
    \/ get_daily_completion_status(IsoDate(Today)).daily_loop_complete
    \/ ~get_weekly_progress.raised /\ get_weekly_progress.weekly_goal_met
    \/ ~get_monthly_progress.raised /\ get_monthly_progress.monthly_goal_met

NextKept ==
    \/ LogSonicSketch(30, "riff", <<>>)
    \/ LogVisualMoodboard(<<"a.png">>, "neon")
    \/ LogLoreFragment("Vex", "the gate opens", "arc1")
    \/ nlogs["micro"] < MaxKept /\ LogMicroRelease("beat one", "beat", "")
    \/ nlogs["major"] < MaxKept /\ LogMajorRelease("album", "track", "")
    \/ LogVst3Plugin("synth", "")
    \/ EditVst3Plugin(<<"vst3", 1>>, Some("synth v2"), None, None, None)
    \/ /\ Progressed
       /\ \/ /\ Len(get_tasks("weekly")) < MaxKept
             /\ AddTask("weekly", "mix", "medium")
          \/ DeleteTask("weekly", 1)
          \/ GetPayments
          \/ DeletePayment(1)

SpecKept == Init /\ [][NextKept]_vars

---------------------------------------------------------------------------
(* Data files that go missing or bad.  Between two operations a file may   *)
(* be removed or overwritten with bytes json.load rejects; what it held is *)
(* lost, and its variable is left empty.                                   *)

\* What the variable of the file name is left as when the file is lost.
NoContent(name) == IF name = "payments" THEN [payments |-> <<>>] ELSE EmptyDict

\* The data file name is removed (state "missing") or made undecodable.
BreakFile(name, state) ==
    /\ fs[name] = "ok"
    /\ fs' = [fs EXCEPT ![name] = state]
    /\ inputs' = IF name = "inputs" THEN NoContent(name) ELSE inputs
    /\ processes' = IF name = "processes" THEN NoContent(name) ELSE processes
    /\ outputs' = IF name = "outputs" THEN NoContent(name) ELSE outputs
    /\ calendar' = IF name = "calendar" THEN NoContent(name) ELSE calendar
    /\ payments' = IF name = "payments" THEN NoContent(name) ELSE payments
    /\ ret' = [op |-> "break", raised |-> FALSE, file |-> name]
    /\ UNCHANGED <<inflight, now, tasks, logged, nlogs, issued>>

\* The task file of the type is removed.
RemoveTaskFile(task_type) ==
    /\ get_tasks(task_type) # <<>>
    /\ tasks' = [tasks EXCEPT ![task_type] = [exists |-> FALSE, tasks |-> <<>>]]
    /\ ret' = [op |-> "break", raised |-> FALSE, file |-> task_type]
    /\ UNCHANGED <<inflight, now, inputs, outputs, calendar, logged, nlogs, processes,
                   payments, fs, issued>>

\* The task file of the type is made undecodable: _load_data gives {} for
\* it, a dict with no "tasks" key.
CorruptTaskFile(task_type) ==
    /\ get_tasks(task_type) # <<>>
    /\ tasks' = [tasks EXCEPT ![task_type] =
                    [exists |-> TRUE, undecodable |-> TRUE]]
    /\ ret' = [op |-> "break", raised |-> FALSE, file |-> task_type]
    /\ UNCHANGED <<inflight, now, inputs, outputs, calendar, logged, nlogs, processes,
                   payments, fs, issued>>

\* The records kept, and the output logs made, while files are being lost.
MaxBroken == 2

\* The data files that are missing or undecodable.
BrokenFiles == {name \in FileNames : fs[name] # "ok"}

NextFiles ==
    \/ /\ OutputLogs < MaxBroken
       /\ BrokenFiles \subseteq {"payments"}
       /\ \E name \in FileNames, state \in {"missing", "undecodable"} :
              BreakFile(name, state)
    \/ RemoveTaskFile("weekly")
    \/ CorruptTaskFile("weekly")
    \/ /\ StoreSize < MaxBroken
       /\ OutputLogs < MaxBroken
       /\ \/ LogSonicSketch(30, "riff", <<>>)
          \/ LogVisualMoodboard(<<"a.png">>, "neon")
          \/ LogCreativeProcess("vinyl", "chop", "wav", "calm", None, "")
          \/ LogMicroRelease("loop", "beat", "")
          \/ LogVst3Plugin("synth", "")
          \/ AddTask("weekly", "mix", "medium")
          \/ GetPayments
          \/ AddPayment("Rent", 700, "lifestyle", "")
    \/ EditVst3Plugin(<<"vst3", 1>>, Some("synth v2"), None, None, None)
    \/ UpdateTask("weekly", 1, [completed |-> TRUE])
    \/ DeleteTask("weekly", 1)
    \/ UpdatePayment(1, "Rent", 750, "lifestyle", "")
    \/ DeletePayment(1)

SpecFiles == Init /\ [][NextFiles]_vars

---------------------------------------------------------------------------
(* Operations that overlap.  The agent takes no lock: an operation is a    *)
(* _load_data, a change of the dict it got, and a _save_data, and another  *)
(* caller's steps can fall between them.  _save_data opens the file with   *)
(* mode 'w', which truncates it, and then writes the document out: until   *)
(* the dump has ended the file holds a part of it, which json.load         *)
(* rejects.  Two dumps into the same file at one time are left out.  The   *)
(* operations followed step by step are log_micro_release and              *)
(* log_creative_process.                                                   *)

\* The data file an operation loads and saves.
FileOf(op) == IF op = "log_micro_release" THEN "outputs" ELSE "processes"

\* The id the operation makes from the dict it loaded, and the dict it
\* will save: log_micro_release("loop", "beat") and
\* log_creative_process("vinyl", "chop", "wav", "calm").
Prepared(op, data) ==
    IF op = "log_micro_release"
    THEN LET output_id == NextOutputId(data, "micro")
         IN [id |-> output_id,
             new |-> Put(data, output_id,
                         CreativeOutput("loop", "micro", "beat", ""))]
    ELSE LET process_id == NextProcessId(data)
         IN [id |-> process_id,
             new |-> Put(data, process_id,
                         CreativeProcess("vinyl", "chop", "wav", "calm",
                                         None, ""))]

\* The file of the name is left in the state with the content.
WriteFile(name, content, state) ==
    /\ fs' = [fs EXCEPT ![name] = state]
    /\ outputs' = IF name = "outputs" THEN content ELSE outputs
    /\ processes' = IF name = "processes" THEN content ELSE processes

\* The client calls the operation, which loads its file and makes the id
\* and the new dict.
Load(c, op) ==
    LET data == load_data(FileOf(op))
        prepared == Prepared(op, data)
    IN /\ inflight[c].pc \in {"idle", "done"}
       /\ inflight' = [inflight EXCEPT ![c] =
              [pc |-> "loaded", op |-> op, file |-> FileOf(op),
               data |-> data, id |-> prepared.id, new |-> prepared.new,
               old |-> data]]
       /\ nlogs' = IF op = "log_micro_release"
                   THEN [nlogs EXCEPT !["micro"] = @ + 1] ELSE nlogs
       /\ ret' = [op |-> "load", raised |-> FALSE, file |-> FileOf(op)]
       /\ UNCHANGED <<now, inputs, outputs, calendar, tasks, logged,
                      processes, payments, fs, issued>>

\* _save_data opens the client's file for writing: the file is truncated,
\* and old keeps what it held.
BeginSave(c) ==
    /\ inflight[c].pc = "loaded"
    /\ \A d \in Clients \ {c} :
           ~(inflight[d].pc = "saving" /\ inflight[d].file = inflight[c].file)
    /\ inflight' = [inflight EXCEPT ![c] =
           [@ EXCEPT !.pc = "saving",
                     !.old = load_data(inflight[c].file)]]
    /\ WriteFile(inflight[c].file, NoContent(inflight[c].file), "undecodable")
    /\ ret' = [op |-> "open", raised |-> FALSE, file |-> inflight[c].file]
    /\ UNCHANGED <<now, inputs, calendar, tasks, logged, nlogs, payments,
                   issued>>

\* Mutant of EndSave: the dict saved is laid over what the file held.
EndSave_merge(c) ==
    LET op == inflight[c] 
        merged == [id \in DOMAIN op.old \cup DOMAIN op.new |->
                      IF id \in DOMAIN op.new THEN op.new[id] ELSE op.old[id]]
    IN /\ op.pc = "saving"
       /\ inflight' = [inflight EXCEPT ![c] = [@ EXCEPT !.pc = "done"]]
       /\ WriteFile(op.file, merged, "ok")
       /\ ret' = [op |-> op.op, raised |-> FALSE, value |-> op.id,
                  overwrote |-> op.id \in DOMAIN op.old]
       /\ UNCHANGED <<now, inputs, calendar, tasks, logged, nlogs, payments,
                      issued>>

\* json.dump ends and the file is closed: the file holds the client's
\* dict, and the operation returns its id.
EndSave(c) ==
    LET op == inflight[c]
    IN /\ op.pc = "saving"
       /\ inflight' = [inflight EXCEPT ![c] = [@ EXCEPT !.pc = "done"]]
       /\ WriteFile(op.file, op.new, "ok")
       /\ ret' = [op |-> op.op, raised |-> FALSE, value |-> op.id,
                  overwrote |-> op.id \in DOMAIN op.old]
       /\ UNCHANGED <<now, inputs, calendar, tasks, logged, nlogs, payments,
                      issued>>

\* A reader loads the file of the name: ret tells what it saw.
Read(name) ==
    /\ ret' = [op |-> "read", raised |-> FALSE, file |-> name,
               seen |-> load_data(name)]
    /\ UNCHANGED <<now, inputs, outputs, calendar, tasks, logged, nlogs,
                   processes, payments, fs, issued, inflight>>

\* The calls of log_micro_release made while operations overlap.
MaxRace == 2

\* The ticks of the clock while operations overlap.
MaxRaceTicks == 1

NextRace ==
    \/ \E c \in Clients :
           /\ nlogs["micro"] < MaxRace
           /\ Load(c, "log_micro_release")
    \/ \E c \in Clients :
           /\ Cardinality(DOMAIN load_data("processes")) < MaxProcs
           /\ Load(c, "log_creative_process")
    \/ \E c \in Clients : BeginSave(c)
    \/ \E c \in Clients : EndSave(c)
    \/ now < MaxRaceTicks /\ Tick

SpecRace == Init /\ [][NextRace]_vars

\* The overlapping operations with a reader of their files beside them.
NextReaders ==
    \/ NextRace
    \/ \E name \in {"outputs", "processes"} : Read(name)

SpecReaders == Init /\ [][NextReaders]_vars

---------------------------------------------------------------------------
(* Every operation *)

Next ==
    \/ Tick
    \/ NextInputs
    \/ NextOutputs
    \/ NextTasks
    \/ NextStore
    \/ NextFiles
    \/ NextReaders

Spec == Init /\ [][Next]_vars

---------------------------------------------------------------------------
(* Properties of the daily inputs, checked under SpecInputs *)

\* The sub-record field of the day stored under key is present.
HasSubRecord(key, field) ==
    key \in DOMAIN inputs /\ inputs[key][field] # None

\* The DailyInput of key has all three sub-records.
DayComplete(key) ==
    /\ HasSubRecord(key, "sonic_sketch")
    /\ HasSubRecord(key, "visual_moodboard")
    /\ HasSubRecord(key, "lore_fragment")

\* C1: once a sonic sketch, a visual moodboard and a lore fragment have
\* all been logged for the same date D, in any order and whatever was
\* done in between, get_daily_completion_status(D) reports
\* daily_loop_complete.
C1_LoggedAllThreeIsComplete ==
    \A D \in DateKeys :
        ({<<"sonic_sketch", D>>, <<"visual_moodboard", D>>,
          <<"lore_fragment", D>>} \subseteq logged)
            => get_daily_completion_status(D).daily_loop_complete

\* C1 witness: all three were logged for a day that is now past, and a
\* sketch was logged under another key as well.
C1_Witness ==
    \E D \in DateKeys :
        /\ {<<"sonic_sketch", D>>, <<"visual_moodboard", D>>,
            <<"lore_fragment", D>>} \subseteq logged
        /\ D # IsoDate(Today)
        /\ \E E \in DateKeys \ {D} : <<"sonic_sketch", E>> \in logged

\* C2: a date that is no key of the inputs collection has all four flags
\* false.
C2_UnloggedDateAllFalse ==
    \A D \in DateKeys :
        D \notin DOMAIN inputs =>
            LET s == get_daily_completion_status(D)
            IN /\ ~s.daily_loop_complete
               /\ ~s.sonic_sketch_complete
               /\ ~s.visual_moodboard_complete
               /\ ~s.lore_fragment_complete

\* C2 witness: inputs were logged for some dates and not for today.
C2_Witness ==
    /\ DOMAIN inputs # {}
    /\ IsoDate(Today) \notin DOMAIN inputs
    /\ \E D \in DOMAIN inputs : DayComplete(D)

\* C3: for every date, daily_loop_complete is the conjunction of the three
\* flags of the same answer, and each flag says whether its sub-record is
\* present.
C3_CompleteIsConjunctionOfFlags ==
    \A D \in DateKeys :
        LET s == get_daily_completion_status(D)
        IN /\ s.daily_loop_complete =
                (s.sonic_sketch_complete /\ s.visual_moodboard_complete
                    /\ s.lore_fragment_complete)
           /\ s.sonic_sketch_complete = HasSubRecord(D, "sonic_sketch")
           /\ s.visual_moodboard_complete = HasSubRecord(D, "visual_moodboard")
           /\ s.lore_fragment_complete = HasSubRecord(D, "lore_fragment")

\* C3 witness: one day is complete while another has some sub-records and
\* not all.
C3_Witness ==
    \E D, E \in DOMAIN inputs :
        /\ get_daily_completion_status(D).daily_loop_complete
        /\ HasSubRecord(E, "lore_fragment")
        /\ ~HasSubRecord(E, "sonic_sketch")
        /\ ~get_daily_completion_status(E).daily_loop_complete

\* The number of consecutive complete days that end at today.
CompleteRunEndingToday ==
    Cardinality({ k \in 1..(MaxDay + 2) :
        \A i \in 0..(k - 1) : DayComplete(IsoDate(SubDays(Today, i))) })

\* C7: current_streak is the length of the maximal run of complete days
\* today, today-1, ...; in particular it is 0 when today is incomplete.
C7_StreakIsRunEndingToday ==
    /\ ~get_creative_stats.raised
    /\ get_creative_stats.current_streak = CompleteRunEndingToday
    /\ (~DayComplete(IsoDate(Today)) => get_creative_stats.current_streak = 0)

\* C7 witness: today is incomplete, yesterday and the day before are
\* complete, and the streak is 0.
C7_Witness ==
    /\ ~DayComplete(IsoDate(Today))
    /\ DayComplete(IsoDate(SubDays(Today, 1)))
    /\ DayComplete(IsoDate(SubDays(Today, 2)))
    /\ get_creative_stats.current_streak = 0

\* C8: when today and the k days before it are complete, the streak is at
\* least k + 1, whatever is stored for other dates.
C8_StreakAtLeastRun ==
    \A k \in 0..(MaxDay + 1) :
        (\A i \in 0..k : DayComplete(IsoDate(SubDays(Today, i))))
            => /\ ~get_creative_stats.raised
               /\ get_creative_stats.current_streak >= k + 1

\* C8 witness: today and the two days before it are complete (k = 2), with
\* a sketch stored under a key that is no date.
C8_Witness ==
    /\ \A i \in 0..2 : DayComplete(IsoDate(SubDays(Today, i)))
    /\ MalformedArg \in DOMAIN inputs
    /\ get_creative_stats.current_streak = 3

\* The documents of inputs with at least one sub-record.
DaysWithSubRecord ==
    { D \in DOMAIN inputs :
        \E f \in {"sonic_sketch", "visual_moodboard", "lore_fragment"} :
            HasSubRecord(D, f) }

\* C9: completion_rate is 100 * (complete input days) / (input days with
\* at least one sub-record), and 0 without an error when inputs is empty;
\* every document counted in total_input_days has a sub-record.
C9_CompletionRate ==
    LET stats == get_creative_stats
        n == Cardinality(DaysWithSubRecord)
        c == Cardinality({ D \in DOMAIN inputs : DayComplete(D) })
    IN /\ ~stats.raised
       /\ stats.total_input_days = n
       /\ DaysWithSubRecord = DOMAIN inputs
       /\ (DOMAIN inputs = {} => stats.completion_rate[1] = 0)
       /\ (n > 0 => stats.completion_rate[1] * n
                        = 100 * c * stats.completion_rate[2])

\* C9 witness: three documents, one complete, one partial, one stored
\* under a key that is no date.
C9_Witness ==
    /\ Cardinality(DOMAIN inputs) = 3
    /\ Cardinality({ D \in DOMAIN inputs : DayComplete(D) }) = 1
    /\ MalformedArg \in DOMAIN inputs
    /\ get_creative_stats.completion_rate[1] = 100
    /\ get_creative_stats.completion_rate[2] = 3

---------------------------------------------------------------------------
(* Properties of the outputs *)

\* The name of the last operation, for those that record one.
RetOp == IF "op" \in DOMAIN ret THEN ret.op ELSE ""

\* The operation that logs an output of a kind.
LogOpOf(kind) ==
    CASE kind = "micro" -> "log_micro_release"
      [] kind = "major" -> "log_major_release"
      [] kind = "vst3" -> "log_vst3_plugin"

\* C4 (SpecOutputs): the i-th output logged of kind K gets the id K_i,
\* whatever was logged of other kinds or edited in between; the id it gets
\* held no document, and the documents of kind K are those of K_1 .. K_n
\* after n logs.
C4_OutputIdsCountUp ==
    \A K \in OutputKinds :
        /\ RetOp = LogOpOf(K) =>
              /\ ret.value = <<K, nlogs[K]>>
              /\ ~ret.overwrote
        /\ { id \in DOMAIN outputs : outputs[id].output_type = K }
              = { <<K, i>> : i \in 1..nlogs[K] }
        /\ \A i \in 1..nlogs[K] : <<K, i>> \in DOMAIN outputs

\* C4 witness: the second plugin is logged after the first was edited and
\* outputs of the other kinds were logged.
C4_Witness ==
    /\ RetOp = "log_vst3_plugin"
    /\ ret.value = <<"vst3", 2>>
    /\ "modified_date" \in DOMAIN outputs[<<"vst3", 1>>]
    /\ nlogs["micro"] >= 1
    /\ nlogs["major"] >= 1

\* Some output of the kind was released on or after the date start.
ReleasedOnOrAfter(kind, start) ==
    \E id \in DOMAIN outputs :
        /\ outputs[id].output_type = kind
        /\ DateLeq(start, <<outputs[id].release_date[1],
                            outputs[id].release_date[2],
                            outputs[id].release_date[3]>>)

\* The most recent Monday on or before today.  Epoch, the day of tick 0,
\* is a Saturday: today is (days since Epoch + 5) % 7 days after a Monday.
LastMonday == SubDays(Today, ((now \div TicksPerDay) + 5) % 7)

\* C5 (SpecProgress): week_start is the most recent Monday on or before
\* today, and the weekly goal is met exactly when a micro output and a
\* plugin were released on or after it; a micro output alone does not
\* meet it.
C5_WeeklyGoal ==
    LET w == get_weekly_progress
    IN /\ ~w.raised
       /\ w.week_start = IsoDate(LastMonday)
       /\ w.weekly_goal_met =
              (ReleasedOnOrAfter("micro", LastMonday)
                  /\ ReleasedOnOrAfter("vst3", LastMonday))
       /\ (ReleasedOnOrAfter("micro", LastMonday)
              /\ ~ReleasedOnOrAfter("vst3", LastMonday)
           => ~w.weekly_goal_met)

\* C5 witness: a micro output was released this week, the only plugin
\* before the week started, and the goal is not met.
C5_Witness ==
    /\ ReleasedOnOrAfter("micro", LastMonday)
    /\ ~ReleasedOnOrAfter("vst3", LastMonday)
    /\ nlogs["vst3"] >= 1
    /\ ~get_weekly_progress.weekly_goal_met
    /\ get_weekly_progress.week_start = <<2024, 9, 2>>

\* The number of outputs of the kind released in today's month or later.
ReleasedThisMonth(kind) ==
    Cardinality({ id \in DOMAIN outputs :
        /\ outputs[id].output_type = kind
        /\ \/ outputs[id].release_date[1] > Today[1]
           \/ /\ outputs[id].release_date[1] = Today[1]
              /\ outputs[id].release_date[2] >= Today[2] })

\* C6 (SpecProgress): month_start is the first day of today's month, and
\* the monthly goal is met exactly when at least 1 major output and at
\* least 4 plugins were released on or after it; 1 major output and 3
\* plugins do not meet it.
C6_MonthlyGoal ==
    LET m == get_monthly_progress
    IN /\ ~m.raised
       /\ m.month_start = <<Today[1], Today[2], 1>>
       /\ DateLeq(m.month_start, Today)
       /\ m.monthly_goal_met =
              (ReleasedThisMonth("major") >= 1 /\ ReleasedThisMonth("vst3") >= 4)
       /\ (ReleasedThisMonth("major") = 1 /\ ReleasedThisMonth("vst3") = 3
           => ~m.monthly_goal_met)

\* C6 witness: one major output and three plugins were released this
\* month, a fourth plugin the month before, and the goal is not met.
C6_Witness ==
    /\ ReleasedThisMonth("major") = 1
    /\ ReleasedThisMonth("vst3") = 3
    /\ nlogs["vst3"] = 4
    /\ ~get_monthly_progress.monthly_goal_met
    /\ get_monthly_progress.month_start = <<2024, 9, 1>>

---------------------------------------------------------------------------
(* Properties of the task lists, checked under SpecTasks *)

\* The step is delete_task(task_type, task_id) on a list where no task
\* has the id.
DeletesAbsentTask(task_type, task_id) ==
    /\ RetOp' = "delete_task"
    /\ ret'.task_type = task_type
    /\ ret'.task_id = task_id
    /\ ~HasTaskId(get_tasks(task_type), task_id)

\* C10 (SpecTasks): delete_task with an id that no task of the list has
\* raises the not-found ValueError, which the delete route answers with
\* HTTP 400 and success false, and leaves the stored task lists exactly
\* as they were.
C10_DeleteAbsentTaskFails ==
    [][\A t \in TaskTypes, id \in TaskIdArgs :
          DeletesAbsentTask(t, id) =>
              /\ ret'.raised
              /\ ret'.error = "ValueError: not found"
              /\ HttpResponse(ret').status = 400
              /\ ~HttpResponse(ret').success
              /\ tasks' = tasks
              /\ get_tasks(t)' = get_tasks(t)]_vars

\* C10 witness: delete_task has just failed for an id that a list of two
\* tasks does not hold, though the id is a position of the list.
C10_Witness ==
    /\ RetOp = "delete_task"
    /\ ret.raised
    /\ Len(get_tasks(ret.task_type)) = 2
    /\ ret.task_id \in DOMAIN get_tasks(ret.task_type)
    /\ ~HasTaskId(get_tasks(ret.task_type), ret.task_id)

\* The ids of the tasks of a list, in the order of the list.
TaskIds(task_list) == [i \in DOMAIN task_list |-> task_list[i].id]

\* C11 (SpecTasks): after any sequence of add_task, update_task and
\* delete_task, no two tasks of the same task list have the same id.
C11_TaskIdsUnique ==
    \A t \in TaskTypes :
        \A i, j \in DOMAIN get_tasks(t) :
            get_tasks(t)[i].id = get_tasks(t)[j].id => i = j

\* C11 witness: add_task has just added a second task to a list whose
\* first task holds the id count + 1, so the loop had to step past it.
C11_Witness ==
    /\ RetOp = "add_task"
    /\ TaskIds(get_tasks(ret.task_type)) = <<2, 3>>

---------------------------------------------------------------------------
(* Properties of the task ids, checked under SpecTaskIds *)

\* The ids add_task has assigned in the list of a type, deleted tasks
\* included.
IssuedIds(task_type) == { p[2] : p \in { q \in issued : q[1] = task_type } }

\* The smallest positive integer that is not in the set ids.
SmallestUnused(ids) ==
    CHOOSE n \in 1..(Cardinality(ids) + 1) :
        /\ n \notin ids
        /\ \A m \in 1..(n - 1) : m \in ids

\* C12 (SpecTaskIds): the id add_task assigns is the smallest integer that
\* was never an id in that task list before, so an id once assigned to a
\* task, deleted or not, is not assigned to a later task.
C12_TaskIdNeverReused ==
    [][RetOp' = "add_task" =>
          /\ ret'.task_id \notin IssuedIds(ret'.task_type)
          /\ ret'.task_id = SmallestUnused(IssuedIds(ret'.task_type))]_vars

---------------------------------------------------------------------------
(* Properties of the whole store, checked under SpecStore *)

\* The list of payments.json, as get_payments reads it from a file that is
\* there.
PaymentList == Get(load_data("payments"), "payments", <<>>)

\* The step is update_task with an id that no task of the list has.
UpdatesAbsentTask ==
    /\ RetOp' = "update_task"
    /\ ~HasTaskId(get_tasks(ret'.task_type), ret'.task_id)

\* The step is update_payment or delete_payment with an id that no
\* payment of the list has.
ChangesAbsentPayment ==
    /\ RetOp' \in {"update_payment", "delete_payment"}
    /\ FindPayment(PaymentList, ret'.payment_id) = 0

\* C13 (SpecStore): update_task, update_payment and delete_payment called
\* with an id that is not in the targeted list raise a not-found
\* ValueError, which the route answers with HTTP 400, and write nothing:
\* the task files and the payments file are as they were.
C13_AbsentIdFails ==
    [][/\ UpdatesAbsentTask =>
              /\ ret'.raised
              /\ ret'.error = "ValueError: not found"
              /\ HttpResponse(ret').status = 400
              /\ tasks' = tasks
       /\ ChangesAbsentPayment =>
              /\ ret'.raised
              /\ ret'.error \in {"ValueError: not found",
                                 "ValueError: No payments found"}
              /\ HttpResponse(ret').status = 400
              /\ payments' = payments
              /\ fs' = fs
              /\ PaymentList' = PaymentList]_vars

\* C13 witness: update_payment has just failed for an id that the stored
\* list, which holds the defaults, does not have, and a task list that
\* update_task failed on before still holds its task.
C13_Witness ==
    /\ RetOp = "update_payment"
    /\ ret.raised
    /\ ret.error = "ValueError: not found"
    /\ Len(PaymentList) = Len(DefaultPayments)
    /\ TaskIds(get_tasks("weekly")) = <<2>>

\* Every data file but those of names is left as it was: what it holds,
\* and whether it is there and decodable.
FilesUnchangedBut(names) ==
    /\ \A n \in FileNames \ names : fs'[n] = fs[n]
    /\ "inputs" \in names \/ inputs' = inputs
    /\ "processes" \in names \/ processes' = processes
    /\ "outputs" \in names \/ outputs' = outputs
    /\ "calendar" \in names \/ calendar' = calendar
    /\ "payments" \in names \/ payments' = payments

\* The step writes the visual_moodboard or lore_fragment sub-record of a
\* day: it is log_visual_moodboard or log_lore_fragment.
LogsMoodboardOrLore ==
    \E key \in DOMAIN inputs', field \in {"visual_moodboard", "lore_fragment"} :
        \/ key \notin DOMAIN inputs /\ inputs'[key][field] # None
        \/ key \in DOMAIN inputs /\ inputs'[key][field] # inputs[key][field]

\* C14 (SpecStore): a write to one collection changes no other: a task
\* operation on a type leaves every data file and the task lists of the
\* other types as they were; log_creative_process changes only processes,
\* log_micro_release and log_major_release only outputs,
\* log_visual_moodboard and log_lore_fragment only inputs, and the payment
\* operations only payments.
C14_WritesOneCollection ==
    [][/\ RetOp' \in {"add_task", "update_task", "delete_task"} =>
              /\ FilesUnchangedBut({})
              /\ \A t \in TaskTypes \ {ret'.task_type} : tasks'[t] = tasks[t]
       /\ RetOp' = "log_creative_process" =>
              FilesUnchangedBut({"processes"}) /\ tasks' = tasks
       /\ RetOp' \in {"log_micro_release", "log_major_release"} =>
              FilesUnchangedBut({"outputs"}) /\ tasks' = tasks
       /\ LogsMoodboardOrLore =>
              FilesUnchangedBut({"inputs"}) /\ tasks' = tasks
       /\ RetOp' \in {"get_payments", "add_payment", "update_payment",
                      "delete_payment"} =>
              FilesUnchangedBut({"payments"}) /\ tasks' = tasks]_vars

\* C14 witness: update_task has just completed a weekly task while the
\* monthly list, the inputs and the calendar hold records.
C14_Witness ==
    /\ RetOp = "update_task"
    /\ ret.task_type = "weekly"
    /\ ~ret.raised
    /\ Len(get_tasks("monthly")) = 1
    /\ DOMAIN inputs # {}
    /\ DOMAIN calendar # {}

\* The ids of the payments of a list.
PaymentIds(payment_list) == { payment_list[i].id : i \in DOMAIN payment_list }

\* The step is a delete_task of the type that succeeded for the id.
DeletedTask(task_type, task_id) ==
    /\ RetOp' = "delete_task"
    /\ ~ret'.raised
    /\ ret'.task_type = task_type
    /\ ret'.task_id = task_id

\* The step is a delete_payment that succeeded for the id.
DeletedPayment(payment_id) ==
    /\ RetOp' = "delete_payment"
    /\ ~ret'.raised
    /\ ret'.payment_id = payment_id

\* C17 (SpecStore): no input day, process or output is ever removed: the
\* key sets of inputs, processes and outputs only grow; and a task or a
\* payment disappears from its list only in a step that is a successful
\* delete_task or delete_payment naming its id.
C17_NothingRemoved ==
    [][/\ DOMAIN inputs \subseteq DOMAIN inputs'
       /\ DOMAIN processes \subseteq DOMAIN processes'
       /\ DOMAIN outputs \subseteq DOMAIN outputs'
       /\ \A t \in TaskTypes : \A i \in DOMAIN get_tasks(t) :
              HasTaskId(get_tasks(t)', get_tasks(t)[i].id)
                  \/ DeletedTask(t, get_tasks(t)[i].id)
       /\ \A id \in PaymentIds(PaymentList) :
              id \in PaymentIds(PaymentList') \/ DeletedPayment(id)]_vars

\* C17 witness: delete_payment has just removed one of the default
\* payments, the other seven are still there, and two more records are
\* stored.
C17_Witness ==
    /\ RetOp = "delete_payment"
    /\ ~ret.raised
    /\ Len(PaymentList) = Len(DefaultPayments) - 1
    /\ StoreSize = MaxStore

---------------------------------------------------------------------------
(* Properties of the calendar, checked under SpecCalendar *)

\* The list the calendar cal holds for the activity type on the day of the
\* date string, empty when it holds none.
CalendarList(cal, date, activity_type) ==
    Get(Get(Get(cal, MonthKey(ParseDate(date)), EmptyDict),
            DayKey(ParseDate(date)), EmptyDict),
        activity_type, <<>>)

\* The list old is the beginning of the list new.
IsPrefix(old, new) ==
    /\ Len(old) <= Len(new)
    /\ \A i \in DOMAIN old : old[i] = new[i]

\* The calendar after the step holds the list of (date, activity_type)
\* with one record added at its end.
AppendsOne(date, activity_type) ==
    /\ Len(CalendarList(calendar', date, activity_type))
           = Len(CalendarList(calendar, date, activity_type)) + 1
    /\ IsPrefix(CalendarList(calendar, date, activity_type),
                CalendarList(calendar', date, activity_type))
    /\ CalendarSize(calendar') = CalendarSize(calendar) + 1

\* C15 (SpecCalendar): the calendar is append-only.  No step removes,
\* reorders or changes a record the calendar holds: every list is the
\* beginning of the list the calendar holds afterwards.  Every
\* update_calendar_entry(date, type, data), made by log_sonic_sketch with
\* a date that parses and by log_vst3_plugin, adds exactly one record, at
\* the end of the list of (date, type).
C15_CalendarAppendOnly ==
    [][/\ \A c \in CalendarCells(calendar) :
              /\ c \in CalendarCells(calendar')
              /\ IsPrefix(calendar[c[1]][c[2]][c[3]],
                          calendar'[c[1]][c[2]][c[3]])
       /\ \A date \in SketchDates \ {<<>>, MalformedArg} :
              LogSonicSketch(30, "riff", date) =>
                  /\ AppendsOne(date, "inputs")
                  /\ CalendarList(calendar', date, "inputs")
                         [Len(CalendarList(calendar', date, "inputs"))].type
                         = "sonic_sketch"
       /\ LogSonicSketch(30, "riff", <<>>) => AppendsOne(IsoDate(Today), "inputs")
       /\ LogVst3Plugin("synth", "") =>
              /\ AppendsOne(IsoDate(Today), "outputs")
              /\ CalendarList(calendar', IsoDate(Today), "outputs")
                     [Len(CalendarList(calendar', IsoDate(Today), "outputs"))].type
                     = "vst3"]_vars

\* C15 witness: a plugin has just been logged on a day that already held
\* a sketch and a plugin, so one day holds two lists, one of two records.
C15_Witness ==
    /\ RetOp = "log_vst3_plugin"
    /\ Len(CalendarList(calendar, IsoDate(Today), "outputs")) = 2
    /\ Len(CalendarList(calendar, IsoDate(Today), "inputs")) = 1

---------------------------------------------------------------------------
(* Properties of the edits, checked under SpecEdits *)

\* The stored outputs that are no plugins.
MicroAndMajorOutputs ==
    { id \in DOMAIN outputs : outputs[id].output_type \in {"micro", "major"} }

\* The id names no stored output, or one that is no plugin.
NotAPlugin(plugin_id) ==
    \/ plugin_id \notin DOMAIN outputs
    \/ plugin_id \in MicroAndMajorOutputs

\* C16 (SpecEdits): edit_vst3_plugin called with an id that is absent or
\* names a micro or major output returns False, which the route hands on
\* as success false, and leaves outputs as it was; and no operation
\* changes a stored micro or major output or a stored process.
C16_OnlyPluginsAreEdited ==
    [][/\ \A id \in EditIds, title \in {None, Some("synth v2")},
             description \in {None, Some("fixed")} :
              (NotAPlugin(id)
                   /\ EditVst3Plugin(id, title, None, description, None)) =>
                  /\ ret'.value = FALSE
                  /\ ~EditVst3Response(ret').success
                  /\ outputs' = outputs
       /\ \A id \in MicroAndMajorOutputs :
              id \in DOMAIN outputs' /\ outputs'[id] = outputs[id]
       /\ \A id \in DOMAIN processes :
              id \in DOMAIN processes' /\ processes'[id] = processes[id]]_vars

\* C16 witness: edit_vst3_plugin has just returned False although outputs
\* holds a plugin, a micro and a major output, and a process is stored.
C16_Witness ==
    /\ RetOp = "edit_vst3_plugin"
    /\ ret.value = FALSE
    /\ {<<"vst3", 1>>, <<"micro", 1>>, <<"major", 1>>} \subseteq DOMAIN outputs
    /\ DOMAIN processes # {}

---------------------------------------------------------------------------
(* Properties of lost data files, checked under SpecFiles *)

\* The data file of the name is missing or undecodable.
FileBroken(name) == fs[name] # "ok"

\* The errors that come of the shape of the data, not of its arguments.
StructuralErrors == {"KeyError: 'payments'"}

\* The operation that has just ended raised a structural error.
RaisedStructural ==
    /\ "error" \in DOMAIN ret
    /\ ret.raised
    /\ ret.error \in StructuralErrors

\* The reads of the collections whose file is lost give the empty result.
BrokenReadsEmpty ==
    /\ FileBroken("inputs") =>
           /\ ~get_daily_completion_status(IsoDate(Today)).sonic_sketch_complete
           /\ ~get_creative_stats.raised
           /\ get_creative_stats.total_input_days = 0
    /\ FileBroken("outputs") =>
           /\ ~get_weekly_progress.raised
           /\ get_creative_stats.total_micro_releases = 0
           /\ get_creative_stats.total_vst3_plugins = 0
    /\ FileBroken("calendar") => get_day_activities(IsoDate(Today)) = EmptyDict

\* C18 (SpecFiles): an operation on a collection whose file is missing or
\* undecodable takes the collection as empty and raises no structural
\* error: a read gives the empty result, and a write leaves the file
\* holding the new entry and nothing else.
C18_BrokenFileIsEmpty ==
    [][/\ BrokenReadsEmpty
       /\ (FileBroken("payments") /\ RetOp' = "get_payments") =>
              ~ret'.raised /\ ret'.payments = <<>>
       /\ (FileBroken("payments") /\ RetOp' = "add_payment") =>
              /\ ~ret'.raised
              /\ ~FileBroken("payments")'
              /\ Len(PaymentList') = 1
       /\ (FileBroken("payments")
              /\ RetOp' \in {"update_payment", "delete_payment"}) =>
              ~RaisedStructural'
       /\ (FileBroken("inputs") /\ ~FileBroken("inputs")') =>
              Cardinality(SubRecords(inputs')) = 1
       /\ (FileBroken("processes") /\ RetOp' = "log_creative_process") =>
              /\ ~FileBroken("processes")'
              /\ Cardinality(DOMAIN processes') = 1
       /\ (FileBroken("outputs") /\ RetOp' = "log_micro_release") =>
              /\ ~FileBroken("outputs")'
              /\ DOMAIN outputs' = {<<"micro", 1>>}
       /\ (FileBroken("outputs") /\ RetOp' = "edit_vst3_plugin") =>
              ret'.value = FALSE
       /\ (FileBroken("calendar") /\ ~FileBroken("calendar")') =>
              CalendarSize(calendar') = 1
       /\ \A t \in {"weekly"} :
              (get_tasks(t) = <<>> /\ RetOp' = "add_task"
                   /\ ret'.task_type = t) =>
                  Len(get_tasks(t)') = 1]_vars

---------------------------------------------------------------------------
(* Properties of the reports, checked under SpecReports *)

\* The day's status reports a sub-record done exactly when it is stored.
ReportsStored(date) ==
    LET status == get_daily_completion_status(date)
        stored(field) ==
            /\ date \in DOMAIN inputs
            /\ inputs[date][field] # None
    IN /\ status.sonic_sketch_complete = stored("sonic_sketch")
       /\ status.visual_moodboard_complete = stored("visual_moodboard")
       /\ status.lore_fragment_complete = stored("lore_fragment")
       /\ status.daily_loop_complete =
              (stored("sonic_sketch") /\ stored("visual_moodboard")
                   /\ stored("lore_fragment"))

\* C19 (SpecReports): in every reachable state, sketches logged under
\* dates of any form among them, get_weekly_progress, get_monthly_progress
\* and get_creative_stats return without raising,
\* get_daily_completion_status reports what is not stored as not done, and
\* the counts of what is not stored are zero.
C19_ReportsNeverRaise ==
    /\ ~get_weekly_progress.raised
    /\ ~get_monthly_progress.raised
    /\ ~get_creative_stats.raised
    /\ \A date \in DateKeys : ReportsStored(date)
    /\ inputs = EmptyDict =>
           /\ get_creative_stats.total_input_days = 0
           /\ get_creative_stats.completion_rate[1] = 0
           /\ get_creative_stats.current_streak = 0
    /\ outputs = EmptyDict =>
           /\ get_weekly_progress.micro_releases_this_week = 0
           /\ get_weekly_progress.vst3_plugins_this_week = 0
           /\ get_monthly_progress.major_releases_this_month = 0
           /\ get_creative_stats.total_micro_releases = 0

\* C19 witness: a sketch is stored under a string that is no date, today's
\* loop is complete, an output is stored, and get_creative_stats returns a
\* streak.
C19_Witness ==
    /\ MalformedArg \in DOMAIN inputs
    /\ get_daily_completion_status(IsoDate(Today)).daily_loop_complete
    /\ outputs # EmptyDict
    /\ ~get_creative_stats.raised
    /\ get_creative_stats.current_streak >= 1

---------------------------------------------------------------------------
(* Properties of the calendar reads, checked under SpecCalendar *)

\* The days the calendar holds activities for, as dates.
CalendarDays ==
    { <<c[1][1], c[1][2], c[2][1]>> : c \in CalendarCells(calendar) }

\* C20 (SpecCalendar): what update_calendar_entry appended for the date
\* Y-M-D is returned, under its activity type, both by
\* get_day_activities('Y-M-D') and as the calendar data of the day read
\* get_day_data(Y, M, D).
C20_CalendarRoundTrip ==
    \A date \in CalendarDays :
        LET stored == calendar[MonthKey(date)][DayKey(date)]
        IN /\ get_day_activities(date) = stored
           /\ get_day_data(date[1], date[2], date[3]).calendar_data = stored

---------------------------------------------------------------------------
(* Properties of overlapping operations, checked under SpecRace and        *)
(* SpecReaders                                                             *)

\* The client's operation has returned, and the other client's same
\* operation had loaded the same dict: their loads came before both saves.
Raced(c, d) ==
    /\ c # d
    /\ inflight[c].pc = "done"
    /\ inflight[d].pc \in {"saving", "done"}
    /\ inflight[c].op = inflight[d].op
    /\ inflight[c].data = inflight[d].data

\* C21 (SpecRace): when the save of an operation ends after the same
\* operation of another client, which had loaded the same dict, has
\* returned, both have returned without raising and the file holds the
\* dict of the later save alone, one entry more than was loaded; for two
\* logs of a micro release the ids returned are the same and one document
\* is stored for the two calls.
C21_LaterSaveWins ==
    [][\A c, d \in Clients :
          (EndSave(d) /\ Raced(c, d)) =>
              /\ ~ret'.raised
              /\ load_data(inflight[d].file)' = inflight[d].new
              /\ Cardinality(DOMAIN load_data(inflight[d].file)')
                     = Cardinality(DOMAIN inflight[d].data) + 1
              /\ inflight[d].op = "log_micro_release" =>
                     /\ ret'.value = inflight[c].id
                     /\ Cardinality(DOMAIN outputs')
                            = Cardinality(DOMAIN inflight[c].new)]_vars

\* C21 witness: two logs of a micro release have both returned micro_1,
\* two calls were made, and outputs holds one document.
C21_Witness ==
    /\ Raced("a", "b")
    /\ inflight["b"].pc = "done"
    /\ inflight["a"].op = "log_micro_release"
    /\ inflight["a"].id = <<"micro", 1>>
    /\ inflight["b"].id = <<"micro", 1>>
    /\ nlogs["micro"] = 2
    /\ DOMAIN outputs = {<<"micro", 1>>}

\* The clients whose _save_data is writing the file of the name.
Writers(name) ==
    { c \in Clients : inflight[c].pc = "saving" /\ inflight[c].file = name }

\* C22 (SpecReaders): a reader that loads a file while an operation is
\* saving it sees the document the file held before the save or the
\* document the save writes, never an empty or partial one.
C22_NoPartialWrite ==
    [][\A name \in {"outputs", "processes"} :
          \A c \in Writers(name) :
              Read(name) =>
                  ret'.seen \in {inflight[c].old, inflight[c].new}]_vars

\* C23 (SpecRace): two calls of log_creative_process that loaded the same
\* dict, and so counted the same number of processes, get different ids,
\* and the save of the later one replaces no document stored under its id.
C23_ProcessIdsUnique ==
    [][\A c, d \in Clients :
          (EndSave(d) /\ Raced(c, d)
               /\ inflight[d].op = "log_creative_process") =>
              /\ inflight[c].id # inflight[d].id
              /\ ~ret'.overwrote]_vars

---------------------------------------------------------------------------
(* Properties of the completion of tasks, checked under SpecTaskFlags *)

\* The task is completed exactly when it has a completion time.
FlagMatchesTime(task) == task.completed <=> (task.completed_at # None)

\* The completion fields of the tasks of a list, in order.
CompletionFields(task_list) ==
    [i \in DOMAIN task_list |->
        <<task_list[i].completed, task_list[i].completed_at>>]

\* C24 (SpecTaskFlags): after every step each task is completed exactly
\* when its completed_at is not null; the task add_task appends is not
\* completed and has a null completed_at; and update_task with a dict that
\* does not mention completed leaves both fields of every task as they
\* were.
C24_CompletedIffCompletedAt ==
    [][/\ \A i \in DOMAIN get_tasks("weekly")' :
              FlagMatchesTime(get_tasks("weekly")'[i])
       /\ AddTask("weekly", "mix", "medium") =>
              LET task_list == get_tasks("weekly")'
                  new_task == task_list[Len(task_list)]
              IN /\ ~new_task.completed
                 /\ new_task.completed_at = None
       /\ \A id \in TaskIdArgs, u \in TaskEdits :
              UpdateTask("weekly", id, u) =>
                  CompletionFields(get_tasks("weekly")')
                      = CompletionFields(get_tasks("weekly"))]_vars

\* C24 witness: of two tasks one was completed and then edited, keeping
\* its completion time, and the other was completed and reopened.
C24_Witness ==
    /\ Len(get_tasks("weekly")) = 2
    /\ get_tasks("weekly")[1].completed
    /\ get_tasks("weekly")[1].completed_at = Some(<<2024, 8, 31, 0>>)
    /\ get_tasks("weekly")[1].text = "remix"
    /\ ~get_tasks("weekly")[2].completed
    /\ get_tasks("weekly")[2].completed_at = None
    /\ get_tasks("weekly")[2].priority = "high"
    /\ now = 1

---------------------------------------------------------------------------
(* Properties of the sub-records of a day, checked under SpecInputs *)

InputFields == {"sonic_sketch", "visual_moodboard", "lore_fragment"}

\* The step sets the sub-record field of the day key and nothing else of
\* inputs: the day is there afterwards, every other sub-record of every
\* day is as it was (None in a day just created), and a day that was
\* complete is complete.
SetsOnly(key, field) ==
    /\ DOMAIN inputs' = DOMAIN inputs \cup {key}
    /\ inputs'[key][field] # None
    /\ \A k \in DOMAIN inputs', f \in InputFields :
           <<k, f>> # <<key, field>> =>
               inputs'[k][f] = IF k \in DOMAIN inputs THEN inputs[k][f]
                               ELSE None
    /\ \A k \in DOMAIN inputs :
           get_daily_completion_status(k).daily_loop_complete =>
               get_daily_completion_status(k)'.daily_loop_complete

\* C25 (SpecInputs): a log of one kind of daily input for a date sets that
\* sub-record of the date alone; the two other sub-records of the date and
\* all sub-records of every other date are unchanged, and a complete day
\* stays complete.
C25_LogSetsOneSubRecord ==
    [][/\ \A date \in {<<>>, IsoDate(Epoch), MalformedArg} :
              LogSonicSketch(30, "riff", date) =>
                  SetsOnly(IF date # <<>> THEN date ELSE IsoDate(Today),
                           "sonic_sketch")
       /\ LogVisualMoodboard(<<"a.png">>, "neon") =>
              SetsOnly(IsoDate(Today), "visual_moodboard")
       /\ LogLoreFragment("Vex", "the gate opens", "arc1") =>
              SetsOnly(IsoDate(Today), "lore_fragment")]_vars

\* C25 witness: the first day is complete, and on a later day its sketch
\* has been logged again: the sketch bears the later time, the moodboard
\* and the lore fragment the time they were logged.
C25_Witness ==
    /\ Today # Epoch
    /\ get_daily_completion_status(IsoDate(Epoch)).daily_loop_complete
    /\ inputs[IsoDate(Epoch)].sonic_sketch.timestamp = NowIso
    /\ inputs[IsoDate(Epoch)].visual_moodboard.timestamp = Epoch \o <<0>>
    /\ inputs[IsoDate(Epoch)].lore_fragment.timestamp = Epoch \o <<0>>
    /\ IsoDate(Today) \in DOMAIN inputs

---------------------------------------------------------------------------
(* Properties of the reports over the operations, checked under SpecKept *)

\* The weekly goal is reported met.
WeeklyGoalMet ==
    /\ ~get_weekly_progress.raised
    /\ get_weekly_progress.weekly_goal_met

\* The monthly goal is reported met.
MonthlyGoalMet ==
    /\ ~get_monthly_progress.raised
    /\ get_monthly_progress.monthly_goal_met

\* Whether a report over the outputs outs meets a goal of n_kind outputs of
\* kind and n_vst3 plugins released on or after start: every release date
\* parses and both counts reach their targets.
GoalMetOver(outs, kind, n_kind, n_vst3, start) ==
    /\ \A id \in DOMAIN outs : IsIsoString(outs[id].release_date)
    /\ Cardinality(ReleasedSince(outs, kind, start)) >= n_kind
    /\ Cardinality(ReleasedSince(outs, "vst3", start)) >= n_vst3

\* C26 (SpecKept): over every operation that leaves the date as it is, a
\* day whose loop is complete stays complete, a weekly goal that is met
\* stays met and a monthly goal that is met stays met: the outputs read
\* after the operation still meet the goal from the same week and month
\* start.
C26_ProgressKept ==
    [][Today' = Today =>
          /\ \A date \in DOMAIN inputs :
                 get_daily_completion_status(date).daily_loop_complete =>
                     get_daily_completion_status(date)'.daily_loop_complete
          /\ \A after \in {load_data("outputs")'} :
             \A week \in {get_weekly_progress} :
             \A month \in {get_monthly_progress} :
                 /\ ~week.raised /\ week.weekly_goal_met =>
                        GoalMetOver(after, "micro", TargetMicroPerWeek,
                                    TargetVst3PerWeek, week.week_start)
                 /\ ~month.raised /\ month.monthly_goal_met =>
                        GoalMetOver(after, "major", TargetMajorPerMonth,
                                    TargetVst3PerMonth, month.month_start)]_vars

\* C26 witness: today's loop is complete and the weekly goal is met, with
\* the first plugin edited and the task deleted, and a payment has just
\* been deleted, an operation that found them so.
C26_Witness ==
    /\ get_daily_completion_status(IsoDate(Today)).daily_loop_complete
    /\ WeeklyGoalMet
    /\ "modified_date" \in DOMAIN outputs[<<"vst3", 1>>]
    /\ issued # {}
    /\ get_tasks("weekly") = <<>>
    /\ RetOp = "delete_payment"
    /\ ~ret.raised

\* The sonic_sketch records the calendar cal holds for the day of date.
SketchRecords(cal, date) ==
    SelectSeq(CalendarList(cal, date, "inputs"),
              LAMBDA r : r.type = "sonic_sketch")

\* The days the index is looked at: the days of the model, the day before
\* the first and every key of inputs.
IndexDays(inp) ==
    { IsoDate(d) : d \in ModelDays } \cup {IsoDate(PrevDate(Epoch))}
        \cup DOMAIN inp

\* The calendar cal indexes the sketches of inp: a day holds a sketch
\* exactly when the calendar holds a sketch record for it, and the last
\* such record has the duration and description of the stored sketch.
SketchesIndexed(inp, cal) ==
    \A date \in IndexDays(inp) :
        LET stored == Get(Get(inp, date, EmptyDict), "sonic_sketch", None)
            records == SketchRecords(cal, date)
        IN /\ stored # None <=> records # <<>>
           /\ records # <<>> =>
                  /\ records[Len(records)].duration = stored.duration_minutes
                  /\ records[Len(records)].description = stored.description

\* The step is a call of log_sonic_sketch for the day date.
SketchCallFor(date) ==
    \E a \in SketchArgs :
        \/ LogSonicSketch(a[1], a[2], date)
        \/ date = IsoDate(Today) /\ LogSonicSketch(a[1], a[2], <<>>)

\* C27 (SpecIndex): with dates of the form YYYY-MM-DD the calendar indexes
\* the sketches of inputs before and after every step: a day holds a sketch
\* exactly when the calendar holds a sonic_sketch record for it, the last
\* such record has the duration and description of the stored sketch, and
\* the number of sonic_sketch records of a day grows by one with every
\* log_sonic_sketch call for the day and with no other step.
C27_CalendarIndexesSketches ==
    [][/\ SketchesIndexed(load_data("inputs"), load_data("calendar"))
       /\ SketchesIndexed(load_data("inputs")', load_data("calendar")')
       /\ \A date \in IndexDays(inputs') :
              Len(SketchRecords(calendar', date))
                  = Len(SketchRecords(calendar, date))
                        + (IF SketchCallFor(date) THEN 1 ELSE 0)]_vars

\* C27 witness: the first day holds the long sketch, logged after the
\* short one on a later day, with a plugin in the calendar and a moodboard
\* in inputs: two sketch records, the last one the long sketch.
C27_Witness ==
    /\ Today # Epoch
    /\ Len(SketchRecords(calendar, IsoDate(Epoch))) = 2
    /\ SketchRecords(calendar, IsoDate(Epoch))[1].duration = 30
    /\ inputs[IsoDate(Epoch)].sonic_sketch.duration_minutes = 45
    /\ CalendarList(calendar, IsoDate(Today), "outputs") # <<>>
    /\ IsoDate(Today) \in DOMAIN inputs
    /\ inputs[IsoDate(Today)].visual_moodboard # None
    /\ inputs[IsoDate(Today)].sonic_sketch = None

\* C28 (SpecCalendar): log_sonic_sketch with a date string that does not
\* parse raises ValueError from the calendar update, after inputs was
\* saved: the sketch is stored under that string as key, every other day
\* of inputs is as before, and the calendar is unchanged.
C28_SketchStoredCalendarNot ==
    [][LogSonicSketch(30, "riff", MalformedArg) =>
           /\ ret'.raised
           /\ ret'.error = "ValueError"
           /\ fs'["inputs"] = "ok"
           /\ MalformedArg \in DOMAIN inputs'
           /\ inputs'[MalformedArg].sonic_sketch = SonicSketch(30, "riff")
           /\ \A date \in DOMAIN inputs \ {MalformedArg} :
                  date \in DOMAIN inputs' /\ inputs'[date] = inputs[date]
           /\ calendar' = calendar
           /\ fs'["calendar"] = fs["calendar"]]_vars

\* C28 witness: a call with the malformed date has just raised; inputs
\* holds the sketch under it, and the calendar holds the records of the
\* sketch and the plugin logged before it and none of this call.
C28_Witness ==
    /\ ret.raised
    /\ ret.error = "ValueError"
    /\ MalformedArg \in DOMAIN inputs
    /\ inputs[MalformedArg].sonic_sketch # None
    /\ IsoDate(Epoch) \in DOMAIN inputs
    /\ CalendarSize(calendar) = 2
    /\ CalendarList(calendar, IsoDate(Epoch), "inputs") # <<>>
    /\ CalendarList(calendar, IsoDate(Epoch), "outputs") # <<>>

\* The fields of an output document edit_vst3_plugin may write.
EditableFields ==
    {"title", "file_path", "description", "tags", "modified_date"}

\* The step changed nothing of outputs but the editable fields of the
\* document id: the ids, every other document and the other fields of the
\* document are as before, and so are the next id of every kind and the
\* counts of the weekly and the monthly report.
EditFrame(id) ==
    /\ DOMAIN outputs' = DOMAIN outputs
    /\ \A other \in DOMAIN outputs \ {id} : outputs'[other] = outputs[other]
    /\ DOMAIN outputs'[id] = DOMAIN outputs[id] \cup {"modified_date"}
    /\ \A f \in DOMAIN outputs[id] \ EditableFields :
           outputs'[id][f] = outputs[id][f]
    /\ \A kind \in OutputKinds :
           NextOutputId(outputs', kind) = NextOutputId(outputs, kind)
    /\ Today' = Today
    /\ \A after \in {load_data("outputs")'} :
       \A week \in {get_weekly_progress} :
       \A month \in {get_monthly_progress} :
           /\ ~week.raised
           /\ ~month.raised
           /\ \A id2 \in DOMAIN after : IsIsoString(after[id2].release_date)
           /\ Cardinality(ReleasedSince(after, "micro", week.week_start))
                  = week.micro_releases_this_week
           /\ Cardinality(ReleasedSince(after, "vst3", week.week_start))
                  = week.vst3_plugins_this_week
           /\ Cardinality(ReleasedSince(after, "major", month.month_start))
                  = month.major_releases_this_month
           /\ Cardinality(ReleasedSince(after, "vst3", month.month_start))
                  = month.vst3_plugins_this_month

\* C29 (SpecEdited): an edit_vst3_plugin(id, ...) that returns True changes
\* only the title, file_path, description, tags and modified_date of the
\* document id: the key, output_type, release_date and category of the
\* document and every other document are unchanged, and so are the ids
\* the next logs get and the counts of the weekly and monthly reports.
C29_EditChangesOnlyItsFields ==
    [][\A id \in EditIds, title \in {None, Some("synth v2")} :
           EditVst3Plugin(id, title, None, None, None) /\ ret'.value
               => EditFrame(id)]_vars

\* C29 witness: the first plugin, released in the week and the month
\* before, has just been edited on the Monday that starts the new week,
\* with a second plugin logged in between.
C29_Witness ==
    /\ RetOp = "edit_vst3_plugin"
    /\ ret.value
    /\ Today = <<2024, 9, 2>>
    /\ <<"vst3", 2>> \in DOMAIN outputs
    /\ outputs[<<"vst3", 1>>].release_date = <<2024, 8, 31, 0>>
    /\ "modified_date" \in DOMAIN outputs[<<"vst3", 1>>]
    /\ outputs[<<"vst3", 1>>].modified_date = NowIso
    /\ outputs[<<"vst3", 1>>].title = "synth v2"
    /\ get_weekly_progress.vst3_plugins_this_week = 0

\* No payment of the list is one of the defaults as get_payments creates
\* them.
NoDefault(payment_list) ==
    \A i \in DOMAIN payment_list : \A j \in DOMAIN DefaultPayments :
        payment_list[i] # DefaultPayments[j]

\* C30 (SpecPayments): on a store with no payments file get_payments saves
\* and returns the 8 defaults, with the ids 1..8, and a get_payments on a
\* file that is there changes nothing and returns what the file holds; an
\* add_payment on the defaults gets the id 9.  An add_payment on a store
\* with no payments file creates the list of the new payment alone, with
\* id 1, and from a list that holds no default no step brings a default
\* back, so that get_payments does not return the defaults.  The ids of
\* the list are pairwise distinct after every step.
C30_DefaultsOnFirstRead ==
    [][/\ Cardinality(PaymentIds(payments'.payments)) = Len(payments'.payments)
       /\ GetPayments =>
              IF ~PaymentsFileExists
              THEN /\ ret'.payments = DefaultPayments
                   /\ load_data("payments")' = [payments |-> DefaultPayments]
                   /\ PaymentIds(ret'.payments) = 1..8
              ELSE /\ UNCHANGED <<payments, fs>>
                   /\ ret'.payments = load_data("payments").payments
       /\ AddPayment("Rent", 750, "lifestyle", "") =>
              /\ ~PaymentsFileExists =>
                     /\ ret'.new_id = 1
                     /\ load_data("payments")'.payments
                            = << [id |-> 1, name |-> "Rent", amount |-> 750,
                                  category |-> "lifestyle", notes |-> "",
                                  created_at |-> NowIso] >>
              /\ PaymentsFileExists
                     /\ load_data("payments").payments = DefaultPayments =>
                     /\ ret'.new_id = 9
                     /\ Len(load_data("payments")'.payments) = 9
       /\ PaymentsFileExists /\ NoDefault(payments.payments) =>
              /\ NoDefault(payments'.payments)
              /\ GetPayments => ret'.payments # DefaultPayments]_vars

\* C30 witness: the first call was get_payments, a second one followed,
\* and the payment just added to the 8 defaults got the id 9.
C30_Witness ==
    /\ RetOp = "add_payment"
    /\ ~ret.raised
    /\ ret.new_id = 9
    /\ Len(payments.payments) = 9
    /\ SubSeq(payments.payments, 1, 8) = DefaultPayments
    /\ payments.payments[9].created_at = NowIso

===========================================================================
